---- MODULE Spec2Model ----
(***************************************************************************)
(* Web-Dev-V3-AI-Sandbox: the zustand store (src/store.ts) with its undo/  *)
(* redo history and changed-files subscription, and the handlers of the    *)
(* orchestrator panel (src/unnamed/part_004) that drive it.                *)
(*                                                                         *)
(* A path is the list of its '/'-separated pieces, so "/README.md" is      *)
(* <<"", "README.md">> and the relative "README.md" is <<"README.md">>.    *)
(* A table (FileSystemState) is an object: a record [id, m] where m maps   *)
(* every path of Paths to its value (Absent for a missing key, Null for    *)
(* the unfetched placeholder) and id is the object's identity, which is    *)
(* what zustand's shallow equality compares. id 0 is the null reference.   *)
(***************************************************************************)
EXTENDS Integers, Sequences, FiniteSets, TLC

VARIABLES
    store,      \* the zustand state object (src/store.ts)
    inflight,   \* pending external calls of the panel in the order they were
                \* started, each with the render values its handler holds
    ui,         \* component-local state of the panel (useState hooks)
    last,       \* history variable: the last operation and the state before it
    round,      \* history variable: the undo/redo round in progress
    db          \* the object store of IndexedDB (src/services/dbService.ts)

vars == <<store, inflight, ui, last, round, db>>

----------------------------------------------------------------------------
(* Bounds *)
MaxHist == 3        \* snapshot writes stop when the history would exceed this
MaxRound == 3       \* undo()/redo() calls counted in one round

----------------------------------------------------------------------------
(* Values *)
Absent == "<undefined>"
Null == "<null>"
readmeContent == "readme"

ReadmePath == <<"", "README.md">>
MarkerPath == <<"", "containers", ".placeholder">>
Paths == {ReadmePath, MarkerPath}
PathOrder == <<ReadmePath, MarkerPath>>  \* stands for the key order of Object.keys

\* what the user types, and what a chat, a refine and a terminal response carry
Contents == {"", "x", readmeContent, "chat", "refined", "ran"}

NoFile == <<>>      \* activeFile: null

\* a tree listing is the set of the relative paths of its blobs; the store has
\* no gitTree key until setGithubState adds one
NoGitTree == [defined |-> FALSE, items |-> {}]
GitTree(items) == [defined |-> TRUE, items |-> items]
RelPath(p) == Tail(p)

EmptyMap == [p \in Paths |-> Absent]
NullFS == [id |-> 0, m |-> EmptyMap]
IsNull(t) == t.id = 0

InitialMap == [p \in Paths |-> IF p = ReadmePath THEN readmeContent ELSE ""]
initialFileSystem == [id |-> 1, m |-> InitialMap]

Range(f) == {f[i] : i \in DOMAIN f}

\* A new object literal with content M: an identity no object in `used` has.
New(M, used) ==
    [id |-> CHOOSE i \in 2..(Cardinality(used) + 2) :
                /\ [id |-> i, m |-> M] \notin used
                /\ \A j \in 2..(i - 1) : [id |-> j, m |-> M] \in used,
     m |-> M]

\* { ...t, [p]: v }
With(M, p, v) == [M EXCEPT ![p] = v]

----------------------------------------------------------------------------
(* Change-set calculation: the second store subscription *)

\* path.endsWith('/.placeholder')
EndsWithPlaceholder(p) == Len(p) >= 2 /\ p[Len(p)] = ".placeholder"

OrderedKeys(M) == SelectSeq(PathOrder, LAMBDA p : M[p] # Absent)

\* new Set([...Object.keys(initial), ...Object.keys(fileSystem)])
AllPaths(fsM, initM) ==
    OrderedKeys(initM) \o SelectSeq(OrderedKeys(fsM), LAMBDA p : initM[p] = Absent)

ChangeOf(p, fsM, initM) ==
    IF initM[p] = Absent /\ fsM[p] # Absent THEN <<[path |-> p, status |-> "added"]>>
    ELSE IF initM[p] # Absent /\ fsM[p] = Absent THEN <<[path |-> p, status |-> "deleted"]>>
    ELSE IF initM[p] # fsM[p] THEN <<[path |-> p, status |-> "modified"]>>
    ELSE <<>>

RECURSIVE Changes(_, _, _)
Changes(ps, fsM, initM) ==
    IF ps = <<>> THEN <<>>
    ELSE ChangeOf(Head(ps), fsM, initM) \o Changes(Tail(ps), fsM, initM)

ComputeChangedFiles_keepsPlaceholders(fsM, initM) ==
    Changes(AllPaths(fsM, initM), fsM, initM)

ComputeChangedFiles(fsM, initM) ==
    SelectSeq(Changes(AllPaths(fsM, initM), fsM, initM),
              LAMBDA c : ~EndsWithPlaceholder(c.path))

ChangedFilesListener(s) ==
    IF IsNull(s.initialGithubFileSystem)
    THEN [s EXCEPT !.changedFiles = <<>>]
    ELSE [s EXCEPT !.changedFiles =
              ComputeChangedFiles(s.fileSystem.m, s.initialGithubFileSystem.m)]

\* zustand set(): the state is replaced, then the subscription with selector
\* [fileSystem, initialGithubFileSystem] and shallow equality runs its listener
\* when one of the two references has changed.
Set(s, t) ==
    IF <<t.fileSystem, t.initialGithubFileSystem>> # <<s.fileSystem, s.initialGithubFileSystem>>
    THEN ChangedFilesListener(t)
    ELSE t

----------------------------------------------------------------------------
(* Store actions, as functions from the store state to the next one *)

InitialStore ==
    [ isDBLoading |-> TRUE,
      fileSystem |-> [id |-> 2, m |-> EmptyMap],
      fileSystemHistory |-> <<>>,
      currentHistoryIndex |-> -1,
      initialGithubFileSystem |-> NullFS,
      changedFiles |-> <<>>,
      error |-> "",
      activeFile |-> NoFile,
      isGithubConnected |-> FALSE,
      selectedRepoFullName |-> "",
      selectedBranchName |-> "",
      isLoadingFromGithub |-> FALSE,
      gitTree |-> NoGitTree,
      chatHistory |-> <<>> ]

\* a chat message: its role and the edits it proposes (code)
ChatMessage(role, code) == [role |-> role, code |-> code]
SystemMessage == ChatMessage("system", <<>>)

\* what dbService.loadState() resolves to: null, or the saved keys
NoSavedState == [exists |-> FALSE, hasFs |-> FALSE, fs |-> EmptyMap]
SavedStates ==
    {NoSavedState}
    \cup {[exists |-> TRUE, hasFs |-> FALSE, fs |-> EmptyMap]}
    \cup {[exists |-> TRUE, hasFs |-> TRUE, fs |-> With(InitialMap, ReadmePath, c)] : c \in {"x", Null}}

\* loadedFs['/README.md'] = readmeContent
EnsureLatest(M) == [p \in Paths |-> IF p = ReadmePath THEN readmeContent ELSE M[p]]

loadStateFromDB_ignoresSaved(s, saved, used) ==
    Set(s, [s EXCEPT !.fileSystem = initialFileSystem,
                     !.activeFile = ReadmePath,
                     !.fileSystemHistory = <<initialFileSystem>>,
                     !.currentHistoryIndex = 0,
                     !.chatHistory = <<SystemMessage>>,
                     !.isDBLoading = FALSE])

loadStateFromDB(s, saved, used) ==
    IF saved.exists
    THEN LET loadedFs == IF saved.hasFs
                         THEN New(EnsureLatest(saved.fs), used)
                         ELSE [initialFileSystem EXCEPT !.m = EnsureLatest(@)]
         IN Set(s, [s EXCEPT !.fileSystem = loadedFs,
                             !.fileSystemHistory = <<loadedFs>>,
                             !.activeFile = ReadmePath,
                             !.currentHistoryIndex = 0,
                             !.chatHistory = <<SystemMessage>>,
                             !.isDBLoading = FALSE])
    ELSE Set(s, [s EXCEPT !.fileSystem = initialFileSystem,
                          !.activeFile = ReadmePath,
                          !.fileSystemHistory = <<initialFileSystem>>,
                          !.currentHistoryIndex = 0,
                          !.chatHistory = <<SystemMessage>>,
                          !.isDBLoading = FALSE])

\* setFileSystem with plausible slips, used to test the properties below
setFileSystem_indexOffByOne(s, fs, snapshot) ==
    IF snapshot
    THEN LET newHistory == Append(SubSeq(s.fileSystemHistory, 1, s.currentHistoryIndex + 1), fs)
         IN Set(s, [s EXCEPT !.fileSystem = fs,
                             !.fileSystemHistory = newHistory,
                             !.currentHistoryIndex = Len(newHistory)])
    ELSE Set(s, [s EXCEPT !.fileSystem = fs])

setFileSystem_sliceShort(s, fs, snapshot) ==
    IF snapshot
    THEN LET newHistory == Append(SubSeq(s.fileSystemHistory, 1, s.currentHistoryIndex), fs)
         IN Set(s, [s EXCEPT !.fileSystem = fs,
                             !.fileSystemHistory = newHistory,
                             !.currentHistoryIndex = Len(newHistory) - 1])
    ELSE Set(s, [s EXCEPT !.fileSystem = fs])

setFileSystem_noTruncate(s, fs, snapshot) ==
    IF snapshot
    THEN LET newHistory == Append(s.fileSystemHistory, fs)
         IN Set(s, [s EXCEPT !.fileSystem = fs,
                             !.fileSystemHistory = newHistory,
                             !.currentHistoryIndex = Len(newHistory) - 1])
    ELSE Set(s, [s EXCEPT !.fileSystem = fs])

setFileSystem_alwaysSnapshot(s, fs, snapshot) ==
    LET newHistory == Append(SubSeq(s.fileSystemHistory, 1, s.currentHistoryIndex + 1), fs)
    IN Set(s, [s EXCEPT !.fileSystem = fs,
                        !.fileSystemHistory = newHistory,
                        !.currentHistoryIndex = Len(newHistory) - 1])

setFileSystem(s, fs, snapshot) ==
    IF snapshot
    THEN LET newHistory == Append(SubSeq(s.fileSystemHistory, 1, s.currentHistoryIndex + 1), fs)
         IN Set(s, [s EXCEPT !.fileSystem = fs,
                             !.fileSystemHistory = newHistory,
                             !.currentHistoryIndex = Len(newHistory) - 1])
    ELSE Set(s, [s EXCEPT !.fileSystem = fs])

undo_keepsTable(s) ==
    IF s.currentHistoryIndex > 0
    THEN Set(s, [s EXCEPT !.currentHistoryIndex = s.currentHistoryIndex - 1])
    ELSE s

undo(s) ==
    IF s.currentHistoryIndex > 0
    THEN LET newIndex == s.currentHistoryIndex - 1
         IN Set(s, [s EXCEPT !.fileSystem = s.fileSystemHistory[newIndex + 1],
                             !.currentHistoryIndex = newIndex])
    ELSE s

redo_keepsTable(s) ==
    IF s.currentHistoryIndex < Len(s.fileSystemHistory) - 1
    THEN Set(s, [s EXCEPT !.currentHistoryIndex = s.currentHistoryIndex + 1])
    ELSE s

redo(s) ==
    IF s.currentHistoryIndex < Len(s.fileSystemHistory) - 1
    THEN LET newIndex == s.currentHistoryIndex + 1
         IN Set(s, [s EXCEPT !.fileSystem = s.fileSystemHistory[newIndex + 1],
                             !.currentHistoryIndex = newIndex])
    ELSE s

canUndo(s) == s.currentHistoryIndex > 0
canRedo(s) == s.currentHistoryIndex < Len(s.fileSystemHistory) - 1

addChatMessage(s, message) == Set(s, [s EXCEPT !.chatHistory = Append(@, message)])

setError(s, e) == [s EXCEPT !.error = e]
setActiveFile(s, f) == [s EXCEPT !.activeFile = f]

\* set(newState): the keys of the partial state replace those of the state
setGithubState(s, newState) ==
    Set(s, [k \in DOMAIN s |-> IF k \in DOMAIN newState THEN newState[k] ELSE s[k]])

----------------------------------------------------------------------------
(* Objects the program still holds a reference to *)
Refs == {store.fileSystem, store.initialGithubFileSystem, initialFileSystem}
            \cup Range(store.fileSystemHistory)
            \cup {inflight[i].c.fileSystem : i \in DOMAIN inflight}
            \cup {inflight[i].c.initialGithubFileSystem : i \in DOMAIN inflight}

\* the panel's own state: useState(false) three times, useState(null)
NoChanges == <<>>   \* pendingCodeChanges: null
InitialUI ==
    [ isLoading |-> FALSE,
      isRefining |-> FALSE,
      isTerminalLoading |-> FALSE,
      pendingCodeChanges |-> NoChanges,
      pendingZip |-> FALSE ]

----------------------------------------------------------------------------
(* History variables *)
NoOp ==
    [op |-> "init", snap |-> FALSE, arg |-> EmptyMap, idx |-> -1, len |-> 0, redoTargets |-> {},
     paths |-> {}, stale |-> FALSE, touched |-> FALSE, pc |-> "", calls |-> <<>>]
\* the operation, its arguments, and the cursor, history length and redo targets before it
Did(name, snap, arg) ==
    [op |-> name, snap |-> snap, arg |-> arg,
     idx |-> store.currentHistoryIndex, len |-> Len(store.fileSystemHistory),
     redoTargets |-> {store.fileSystemHistory[i] :
                        i \in (store.currentHistoryIndex + 2)..Len(store.fileSystemHistory)},
     paths |-> {}, stale |-> FALSE, touched |-> FALSE, pc |-> "", calls |-> <<>>]
\* the operation alone
Op(name) == [NoOp EXCEPT !.op = name]
\* the pending call r returns: the operation, the live table its handler holds
\* from the render that started it, the paths it writes, and whether the
\* repository context it was started in has been left, or the user has changed
\* the table, since it was started
Returned(name, r, paths) ==
    [NoOp EXCEPT !.op = name, !.arg = r.c.fileSystem.m, !.paths = paths, !.stale = r.stale,
                 !.touched = r.touched, !.pc = r.pc, !.calls = r.calls]

NoRound == [phase |-> "x", n |-> 0, k |-> 0, orig |-> EmptyMap]
\* a round starts from a state left by snapshot writes (or by the load)
FreshRound == [phase |-> "w", n |-> 0, k |-> 0, orig |-> EmptyMap]
RoundAfterUndo ==
    IF round.phase = "w" THEN [phase |-> "u", n |-> 1, k |-> 0, orig |-> store.fileSystem.m]
    ELSE IF round.phase = "u" /\ round.n < MaxRound THEN [round EXCEPT !.n = @ + 1]
    ELSE NoRound
RoundAfterRedo ==
    IF round.phase = "u" THEN [round EXCEPT !.phase = "r", !.k = 1]
    ELSE IF round.phase = "r" /\ round.k < round.n THEN [round EXCEPT !.k = @ + 1]
    ELSE NoRound

----------------------------------------------------------------------------
(* The store driven through its own interface: load, then any sequence of   *)
(* setFileSystem, undo and redo.                                            *)

\* tables handed to setFileSystem
WriteMaps ==
    { With(InitialMap, ReadmePath, "x"),
      With(InitialMap, ReadmePath, ""),
      [p \in Paths |-> IF p = ReadmePath THEN Null ELSE Absent] }

Init ==
    /\ store = InitialStore
    /\ inflight = <<>>
    /\ ui = InitialUI
    /\ last = NoOp
    /\ round = NoRound
    /\ db = NoSavedState

LoadStateFromDB(saved) ==
    /\ store.isDBLoading
    /\ store' = loadStateFromDB(store, saved, Refs)
    /\ last' = Did("loadStateFromDB", FALSE, EmptyMap)
    /\ round' = FreshRound
    /\ UNCHANGED db
    /\ UNCHANGED <<inflight, ui>>

SetFileSystem(M, snapshot) ==
    /\ ~store.isDBLoading
    /\ snapshot => store.currentHistoryIndex + 1 < MaxHist
    /\ store' = setFileSystem(store, New(M, Refs), snapshot)
    /\ last' = Did("setFileSystem", snapshot, M)
    /\ round' = IF snapshot THEN FreshRound ELSE NoRound
    /\ UNCHANGED db
    /\ UNCHANGED <<inflight, ui>>

Undo ==
    /\ ~store.isDBLoading
    /\ store' = undo(store)
    /\ last' = Did("undo", FALSE, EmptyMap)
    /\ round' = RoundAfterUndo
    /\ UNCHANGED db
    /\ UNCHANGED <<inflight, ui>>

Redo ==
    /\ ~store.isDBLoading
    /\ store' = redo(store)
    /\ last' = Did("redo", FALSE, EmptyMap)
    /\ round' = RoundAfterRedo
    /\ UNCHANGED db
    /\ UNCHANGED <<inflight, ui>>

NextStore ==
    \/ \E saved \in SavedStates : LoadStateFromDB(saved)
    \/ \E M \in WriteMaps, snapshot \in BOOLEAN : SetFileSystem(M, snapshot)
    \/ Undo
    \/ Redo

SpecStore == Init /\ [][NextStore]_vars

----------------------------------------------------------------------------
(* Properties of the history (SpecStore) *)

\* C1: once loadStateFromDB has completed, fileSystemHistory has at least one
\* snapshot and 0 <= currentHistoryIndex < Len(fileSystemHistory).
HistoryCursorInRange ==
    ~store.isDBLoading =>
        /\ Len(store.fileSystemHistory) >= 1
        /\ 0 <= store.currentHistoryIndex
        /\ store.currentHistoryIndex < Len(store.fileSystemHistory)

\* an undo has brought the cursor of a full history back to 0
W_HistoryCursorInRange ==
    /\ last.op = "undo"
    /\ store.currentHistoryIndex = 0
    /\ Len(store.fileSystemHistory) = MaxHist

\* C2: setFileSystem(fs, true) at cursor c yields the first c+1 old snapshots
\* followed by fs, a cursor on the new last index and a live table equal to fs.
SnapshotWriteTruncatesAndAppends ==
    [][ (last'.op = "setFileSystem" /\ last'.snap) =>
            /\ store'.fileSystem.m = last'.arg
            /\ store'.fileSystemHistory =
                  Append(SubSeq(store.fileSystemHistory, 1, store.currentHistoryIndex + 1),
                         store'.fileSystem)
            /\ Len(store'.fileSystemHistory) = store.currentHistoryIndex + 2
            /\ store'.currentHistoryIndex = Len(store'.fileSystemHistory) - 1 ]_vars

\* a snapshot write made at a cursor that had two snapshots after it
W_SnapshotWriteTruncatesAndAppends ==
    /\ last.op = "setFileSystem" /\ last.snap
    /\ last.idx = 0 /\ last.len = 3
    /\ Len(store.fileSystemHistory) = 2

\* C3: undo()/redo() move the cursor by exactly one when in range and make
\* that snapshot the live table; at the boundaries they change nothing; and
\* canUndo()/canRedo() are true exactly when the call would move the cursor.
UndoRedoStep ==
    /\ [][ last'.op = "undo" =>
             IF store.currentHistoryIndex > 0
             THEN /\ store'.currentHistoryIndex = store.currentHistoryIndex - 1
                  /\ store'.fileSystem = store.fileSystemHistory[store.currentHistoryIndex]
                  /\ store'.fileSystemHistory = store.fileSystemHistory
             ELSE store' = store ]_vars
    /\ [][ last'.op = "redo" =>
             IF store.currentHistoryIndex < Len(store.fileSystemHistory) - 1
             THEN /\ store'.currentHistoryIndex = store.currentHistoryIndex + 1
                  /\ store'.fileSystem = store.fileSystemHistory[store.currentHistoryIndex + 2]
                  /\ store'.fileSystemHistory = store.fileSystemHistory
             ELSE store' = store ]_vars
    /\ [](~store.isDBLoading =>
             /\ canUndo(store) <=> (undo(store).currentHistoryIndex # store.currentHistoryIndex)
             /\ canRedo(store) <=> (redo(store).currentHistoryIndex # store.currentHistoryIndex))

\* an undo from the last of three snapshots, after a live-typing write
W_UndoRedoStep ==
    /\ last.op = "undo"
    /\ last.idx = 2 /\ last.len = 3
    /\ store.currentHistoryIndex = 1
    /\ store.fileSystem = store.fileSystemHistory[2]

\* C4: after snapshot writes, N undo() calls followed by N redo() calls with no
\* write in between leave the live table as it was before the first undo.
UndoNRedoNRestores ==
    (round.phase = "r" /\ round.k = round.n) => store.fileSystem.m = round.orig

\* N = MaxRound undos, more than the undo steps available, then N redos
W_UndoNRedoNRestores ==
    /\ round.phase = "r" /\ round.k = round.n /\ round.n = MaxRound
    /\ Len(store.fileSystemHistory) >= 2
    /\ Len(store.fileSystemHistory) - 1 < round.n
    /\ store.fileSystem.m = round.orig

\* C5: a snapshot write that follows undo() calls leaves canRedo() false and
\* none of the former redo targets in fileSystemHistory.
WriteAfterUndoDropsRedo ==
    (last.op = "setFileSystem" /\ last.snap /\ last.redoTargets # {}) =>
        /\ ~canRedo(store)
        /\ last.redoTargets \cap Range(store.fileSystemHistory) = {}

W_WriteAfterUndoDropsRedo ==
    /\ last.op = "setFileSystem" /\ last.snap
    /\ Cardinality(last.redoTargets) = 2
    /\ ~canRedo(store)

\* C6: setFileSystem(fs, false) changes the live table only, and no write
\* changes a snapshot that stays in fileSystemHistory.
LiveWriteFrame ==
    [][ last'.op = "setFileSystem" =>
          /\ ~last'.snap =>
                /\ \A k \in DOMAIN store \ {"fileSystem", "changedFiles"} :
                        store'[k] = store[k]
                /\ store'.fileSystem.m = last'.arg
          /\ \A i \in 1..(store.currentHistoryIndex + 1) :
                /\ i <= Len(store'.fileSystemHistory)
                /\ store'.fileSystemHistory[i] = store.fileSystemHistory[i] ]_vars

\* a live-typing write made over a history of three snapshots
W_LiveWriteFrame ==
    /\ last.op = "setFileSystem" /\ ~last.snap
    /\ last.len = 3 /\ Len(store.fileSystemHistory) = 3
    /\ store.fileSystem # store.fileSystemHistory[store.currentHistoryIndex + 1]

----------------------------------------------------------------------------
(* The change list as a function of the two tables: the subscription's       *)
(* listener run on every pair of a live table and a baseline.                *)

AllMaps == [Paths -> Contents \cup {Null, Absent}]

InitDiff ==
    /\ \E live \in AllMaps, base \in AllMaps, hasBase \in BOOLEAN :
         store = [InitialStore EXCEPT
                     !.isDBLoading = FALSE,
                     !.fileSystem = [id |-> 1, m |-> live],
                     !.fileSystemHistory = <<[id |-> 1, m |-> live]>>,
                     !.currentHistoryIndex = 0,
                     !.initialGithubFileSystem =
                         IF hasBase THEN [id |-> 2, m |-> base] ELSE NullFS]
    /\ inflight = <<>>
    /\ ui = InitialUI
    /\ last = NoOp
    /\ round = NoRound
    /\ db = NoSavedState

\* the listener of the subscription
ChangedFilesSubscription ==
    /\ last = NoOp
    /\ store' = ChangedFilesListener(store)
    /\ last' = Op("changedFilesListener")
    /\ UNCHANGED <<inflight, ui, round, db>>

NextDiff == ChangedFilesSubscription

SpecDiff == InitDiff /\ [][NextDiff]_vars

RecordsOf(p) == { i \in DOMAIN store.changedFiles : store.changedFiles[i].path = p }
StatusOf(p) == store.changedFiles[CHOOSE i \in RecordsOf(p) : TRUE].status
OnlyLive(p) == store.fileSystem.m[p] # Absent /\ store.initialGithubFileSystem.m[p] = Absent
OnlyBaseline(p) == store.fileSystem.m[p] = Absent /\ store.initialGithubFileSystem.m[p] # Absent
InBothDiffering(p) ==
    /\ store.fileSystem.m[p] # Absent /\ store.initialGithubFileSystem.m[p] # Absent
    /\ store.fileSystem.m[p] # store.initialGithubFileSystem.m[p]
Reported(p) == ~EndsWithPlaceholder(p) /\ (OnlyLive(p) \/ OnlyBaseline(p) \/ InBothDiffering(p))

\* C7: with a baseline set, the computed change list holds exactly one record
\* for every path that is changed and does not end in '/.placeholder', and none
\* for any other path; the status is 'added' for a path only in the live
\* table, 'deleted' for one only in the baseline, 'modified' for one in both
\* with different content.
ChangeListCharacterised ==
    (last.op = "changedFilesListener" /\ ~IsNull(store.initialGithubFileSystem)) =>
        \A p \in Paths :
            /\ Cardinality(RecordsOf(p)) = (IF Reported(p) THEN 1 ELSE 0)
            /\ Reported(p) =>
                 /\ OnlyLive(p) => StatusOf(p) = "added"
                 /\ OnlyBaseline(p) => StatusOf(p) = "deleted"
                 /\ InBothDiffering(p) => StatusOf(p) = "modified"

\* the listener has run on tables that differ in a file and in a marker
W_ChangeListCharacterised ==
    /\ last.op = "changedFilesListener" /\ ~IsNull(store.initialGithubFileSystem)
    /\ InBothDiffering(ReadmePath)
    /\ OnlyLive(MarkerPath)
    /\ store.changedFiles = <<[path |-> ReadmePath, status |-> "modified"]>>

----------------------------------------------------------------------------
(* The orchestrator panel: explorer, editor, orb menu and GitHub panel.     *)
(* A handler runs with the values of the render it was created in; a call   *)
(* that awaits keeps them while the store moves on.                         *)

MaxInflight == 1    \* external calls pending at the same time
MaxSnapshots == 2   \* snapshots the panel may take: one is the mount's, one a repository load's

Repos == {"o/r"}
Branches == {"main"}
\* the trees getRepoTree can return: relative paths of the blobs
TreeListings == { {<<"README.md">>}, {<<"README.md">>, <<"containers", ".placeholder">>} }
\* what getFileContent can return for a blob
BlobContents == {"x"}
\* what the user types into the editor
TypedContents == {"x"}
\* the files the user opens from the explorer
OpenablePaths == {ReadmePath}
\* openFiles[0] || null
FirstOpenFile == {ReadmePath, NoFile}

\* Objects made during a handler get the identities -1 and -2; Canon then
\* renumbers the objects of the resulting state, per content, in the order
\* live table, history, baseline, pending closures. Identities are only ever
\* compared within one state, so the renumbering changes no behaviour.
New1(M) == [id |-> -1, m |-> M]
New2(M) == [id |-> -2, m |-> M]

RefSeq(s, f) ==
    <<s.fileSystem>> \o s.fileSystemHistory \o <<s.initialGithubFileSystem>>
        \o [i \in 1..Len(f) |-> f[i].c.fileSystem]
        \o [i \in 1..Len(f) |-> f[i].c.initialGithubFileSystem]

FirstAt(o, refs) == CHOOSE i \in 1..Len(refs) : refs[i] = o /\ \A j \in 1..(i - 1) : refs[j] # o

CanonObj(o, refs) ==
    IF IsNull(o) THEN o
    ELSE [o EXCEPT !.id = 1 + Cardinality({ refs[j] : j \in
                              { k \in 1..(FirstAt(o, refs) - 1) :
                                    refs[k].m = o.m /\ ~IsNull(refs[k]) } })]

CanonStore(s, f) ==
    LET refs == RefSeq(s, f)
    IN [s EXCEPT !.fileSystem = CanonObj(@, refs),
                 !.initialGithubFileSystem = CanonObj(@, refs),
                 !.fileSystemHistory = [i \in DOMAIN @ |-> CanonObj(@[i], refs)]]

CanonPending(s, f) ==
    LET refs == RefSeq(s, f)
    IN [i \in 1..Len(f) |->
          [f[i] EXCEPT !.c.fileSystem = CanonObj(@, refs),
                       !.c.initialGithubFileSystem = CanonObj(@, refs)]]

\* the step to store state s and pending calls f
Becomes(s, f) ==
    /\ store' = CanonStore(s, f)
    /\ inflight' = CanonPending(s, f)

Remove(f, i) == SubSeq(f, 1, i - 1) \o SubSeq(f, i + 1, Len(f))

\* the values of the current render that a handler reads after its await
NoClosure ==
    [ fileSystem |-> NullFS, initialGithubFileSystem |-> NullFS, gitTree |-> NoGitTree,
      selectedRepoFullName |-> "", activeFile |-> NoFile ]
\* handleFileSelect: store.fileSystem, store.initialGithubFileSystem, activeFile
FetchClosure(c) ==
    [NoClosure EXCEPT !.fileSystem = c.fileSystem,
                      !.initialGithubFileSystem = c.initialGithubFileSystem,
                      !.activeFile = c.activeFile]
\* handleLoadRepo calls handleFileSelect of its own render
LoadClosure ==
    [ fileSystem |-> store.fileSystem,
      initialGithubFileSystem |-> store.initialGithubFileSystem,
      gitTree |-> store.gitTree,
      selectedRepoFullName |-> store.selectedRepoFullName,
      activeFile |-> store.activeFile ]
\* handleCommitAndPush: fileSystem
PushClosure == [NoClosure EXCEPT !.fileSystem = store.fileSystem]

\* the text of every error the panel reports; the wording is not modelled
ErrorMessage == "error"

\* stale is a history variable: a repository load or a disconnect has happened
\* since the call was started
\* touched is a history variable: the user has changed the live table since the
\* call was started
\* pc, blobs, open, calls and ok are the position of githubService.commitAndPush:
\* the request awaited, the blobs to create and those not yet created, the
\* requests issued and the requests that have succeeded
Pending(kind, path, c) ==
    [kind |-> kind, path |-> path, c |-> c, stale |-> FALSE, touched |-> FALSE,
     pc |-> "", blobs |-> 0, open |-> 0, calls |-> <<>>, ok |-> <<>>]
Touched(f) == [i \in DOMAIN f |-> [f[i] EXCEPT !.touched = TRUE]]
LeftContext(f) == [i \in DOMAIN f |-> [f[i] EXCEPT !.stale = TRUE]]

\* fs[`/${item.path}`] = null for every item of the tree
NullsFor(tree) == [p \in Paths |-> IF RelPath(p) \in tree THEN Null ELSE Absent]

\* handleFileSelect(path) up to its await, run on store state s with the
\* render values c: the next store state and whether a blob fetch was started.
\* first is openFiles[0] || null.
handleFileSelect(s, c, path, first) ==
    LET s1 == setActiveFile(s, path)
    IN IF c.fileSystem.m[path] = Null /\ c.selectedRepoFullName # ""
       THEN IF c.gitTree.defined /\ RelPath(path) \in c.gitTree.items
            THEN [store |-> s1, fetch |-> TRUE]
            ELSE [store |-> IF c.activeFile = path
                            THEN setActiveFile(setError(s1, ErrorMessage), first)
                            ELSE setError(s1, ErrorMessage),
                  fetch |-> FALSE]
       ELSE [store |-> s1, fetch |-> FALSE]

\* the part of handleFileSelect after getFileContent has resolved
fileContentLoaded(s, c, path, content) ==
    LET newFs == New1(With(c.fileSystem.m, path, content))
        newInitialFs == New2(With(c.initialGithubFileSystem.m, path, content))
    IN setGithubState(setFileSystem(s, newFs, FALSE), [initialGithubFileSystem |-> newInitialFs])

\* the catch block of handleFileSelect
fileContentFailed(s, c, path, first) ==
    IF c.activeFile = path
    THEN setActiveFile(setError(s, ErrorMessage), first)
    ELSE setError(s, ErrorMessage)

\* the end of handleLoadRepo: the finally block
loadRepoFinally(s) == setGithubState(s, [isLoadingFromGithub |-> FALSE])

pushSucceeded_onlyClearsChanges(s, c) == setGithubState(s, [changedFiles |-> <<>>])

\* setGithubState({ initialGithubFileSystem: fileSystem, changedFiles: [] })
pushSucceeded(s, c) ==
    setGithubState(s, [initialGithubFileSystem |-> c.fileSystem, changedFiles |-> <<>>])

setIsLoading(b) == [ui EXCEPT !.isLoading = b]

CanSnapshot == store.currentHistoryIndex + 1 < MaxSnapshots
CanStart == Len(inflight) < MaxInflight
Ready == ~store.isDBLoading

\* the mount effect: loadStateFromDB()
Mount(saved) ==
    /\ store.isDBLoading
    /\ Becomes(loadStateFromDB(store, saved, {}), inflight)
    /\ last' = Op("loadStateFromDB")
    /\ UNCHANGED <<ui, round, db>>

\* OrbMenu: the buttons are disabled when canUndo / canRedo is false
OrbUndo ==
    /\ Ready /\ canUndo(store)
    /\ Becomes(undo(store), Touched(inflight))
    /\ last' = Op("undo")
    /\ UNCHANGED <<ui, round, db>>

OrbRedo ==
    /\ Ready /\ canRedo(store)
    /\ Becomes(redo(store), Touched(inflight))
    /\ last' = Op("redo")
    /\ UNCHANGED <<ui, round, db>>

\* CodeEditor onChange: setFileSystem({ ...fileSystem, [activeFile]: newCode }, false)
CodeEditorChange(newCode) ==
    /\ Ready
    /\ store.activeFile # NoFile
    /\ store.fileSystem.m[store.activeFile] # Absent
    /\ Becomes(setFileSystem(store, New1(With(store.fileSystem.m, store.activeFile, newCode)), FALSE),
               Touched(inflight))
    /\ last' = Op("onChange")
    /\ UNCHANGED <<ui, round, db>>

handleNewFile_overwrites(s, path) ==
    [ alert |-> FALSE,
      store |-> handleFileSelect(setFileSystem(s, New1(With(s.fileSystem.m, path, "")), TRUE),
                                 LoadClosure, path, NoFile).store ]

\* handleNewFile(path): an entry of any value at the path, null included, is
\* refused with an alert
handleNewFile(s, path) ==
    IF s.fileSystem.m[path] # Absent
    THEN [ alert |-> TRUE, store |-> s ]
    ELSE [ alert |-> FALSE,
           store |-> handleFileSelect(setFileSystem(s, New1(With(s.fileSystem.m, path, "")), TRUE),
                                      LoadClosure, path, NoFile).store ]

\* the folder names the explorer passes, with and without a trailing slash
FolderNames == { <<"", "containers">>, <<"", "containers", "">> }

\* path.endsWith('/') ? `${path}.placeholder` : `${path}/.placeholder`
PlaceholderOf(path) ==
    IF path[Len(path)] = ""
    THEN SubSeq(path, 1, Len(path) - 1) \o <<".placeholder">>
    ELSE path \o <<".placeholder">>

\* handleNewFolder(path)
handleNewFolder(s, path) ==
    LET placeholder == PlaceholderOf(path)
    IN IF s.fileSystem.m[placeholder] # Absent
       THEN [ alert |-> TRUE, store |-> s ]
       ELSE [ alert |-> FALSE,
              store |-> setFileSystem(s, New1(With(s.fileSystem.m, placeholder, "")), TRUE) ]

\* what an explorer request leaves behind: the store, and the pending calls
\* marked when the table was written
Requested(r, name, target) ==
    /\ r.alert \/ CanSnapshot
    /\ Becomes(r.store, IF r.alert THEN inflight ELSE Touched(inflight))
    /\ last' = [Op(name) EXCEPT !.paths = {target}, !.pc = IF r.alert THEN "alert" ELSE ""]
    /\ UNCHANGED <<ui, round, db>>

\* the explorer's "new file" request
NewFile(path) ==
    /\ Ready
    /\ Requested(handleNewFile(store, path), "handleNewFile", path)

\* the explorer's "new folder" request
NewFolder(path) ==
    /\ Ready
    /\ Requested(handleNewFolder(store, path), "handleNewFolder", PlaceholderOf(path))

\* handleFileSelect(path) from the explorer
FileSelect(path) ==
    /\ Ready
    /\ store.fileSystem.m[path] # Absent
    /\ \E first \in FirstOpenFile :
         LET sel == handleFileSelect(store, LoadClosure, path, first)
         IN /\ sel.fetch => CanStart
            /\ Becomes(sel.store,
                       IF sel.fetch
                       THEN Append(inflight, Pending("fetch", path, FetchClosure(LoadClosure)))
                       ELSE inflight)
    /\ last' = Op("handleFileSelect")
    /\ UNCHANGED <<ui, round, db>>

\* getFileContent resolves: of a file opened from the explorer, or of the
\* file handleLoadRepo opens
FetchDone(i, content) ==
    /\ i \in DOMAIN inflight /\ inflight[i].kind \in {"fetch", "loadFetch"}
    /\ LET r == inflight[i]
           s1 == fileContentLoaded(store, r.c, r.path, content)
       IN Becomes(IF r.kind = "loadFetch" THEN loadRepoFinally(s1) ELSE s1, Remove(inflight, i))
    /\ last' = Returned(IF inflight[i].kind = "loadFetch" THEN "loadFetchDone" ELSE "fetchDone",
                         inflight[i], {inflight[i].path})
    /\ ui' = (IF inflight[i].kind = "loadFetch" THEN setIsLoading(FALSE) ELSE ui)
    /\ UNCHANGED <<round, db>>

FetchFail(i) ==
    /\ i \in DOMAIN inflight /\ inflight[i].kind \in {"fetch", "loadFetch"}
    /\ \E first \in FirstOpenFile :
         LET r == inflight[i]
             s1 == fileContentFailed(store, r.c, r.path, first)
         IN Becomes(IF r.kind = "loadFetch" THEN loadRepoFinally(s1) ELSE s1, Remove(inflight, i))
    /\ last' = Returned("fetchFail", inflight[i], {})
    /\ ui' = (IF inflight[i].kind = "loadFetch" THEN setIsLoading(FALSE) ELSE ui)
    /\ UNCHANGED <<round, db>>

\* handleGithubConnect, once connect and listRepos have resolved
GithubConnect ==
    /\ Ready /\ ~store.isGithubConnected
    /\ Becomes(setGithubState(setError(store, ""), [isGithubConnected |-> TRUE]), inflight)
    /\ last' = Op("handleGithubConnect")
    /\ ui' = setIsLoading(FALSE)
    /\ UNCHANGED <<round, db>>

\* handleRepoSelected
RepoSelected(repo) ==
    /\ Ready /\ store.isGithubConnected
    /\ Becomes(setError(setGithubState(store, [selectedRepoFullName |-> repo,
                                               selectedBranchName |-> ""]), ""),
               inflight)
    /\ last' = Op("handleRepoSelected")
    /\ ui' = setIsLoading(FALSE)
    /\ UNCHANGED <<round, db>>

\* onBranchSelected
BranchSelected(branch) ==
    /\ Ready /\ store.selectedRepoFullName # ""
    /\ Becomes(setGithubState(store, [selectedBranchName |-> branch]), inflight)
    /\ last' = Op("onBranchSelected")
    /\ UNCHANGED <<ui, round, db>>

handleGithubDisconnect_keepsBaseline(s) ==
    setGithubState(s, [ isGithubConnected |-> FALSE,
                        selectedRepoFullName |-> "",
                        selectedBranchName |-> "",
                        changedFiles |-> <<>>,
                        gitTree |-> GitTree({}) ])

\* the setGithubState call of handleGithubDisconnect
handleGithubDisconnect(s) ==
    setGithubState(s, [ isGithubConnected |-> FALSE,
                        selectedRepoFullName |-> "",
                        selectedBranchName |-> "",
                        initialGithubFileSystem |-> NullFS,
                        changedFiles |-> <<>>,
                        gitTree |-> GitTree({}) ])

\* handleGithubDisconnect
GithubDisconnect ==
    /\ Ready /\ store.isGithubConnected
    /\ Becomes(handleGithubDisconnect(store), LeftContext(inflight))
    /\ last' = Op("handleGithubDisconnect")
    /\ UNCHANGED <<ui, round, db>>

\* handleLoadRepo up to its await
LoadRepo ==
    /\ Ready /\ CanStart
    /\ store.selectedRepoFullName # "" /\ store.selectedBranchName # ""
    /\ Becomes(setError(setGithubState(store,
                            [ isLoadingFromGithub |-> TRUE,
                              gitTree |-> GitTree({}),
                              fileSystem |-> New1(EmptyMap),
                              initialGithubFileSystem |-> New2(EmptyMap) ]), ""),
               Append(LeftContext(inflight), Pending("load", NoFile, LoadClosure)))
    /\ last' = Op("handleLoadRepo")
    /\ ui' = setIsLoading(TRUE)
    /\ UNCHANGED <<round, db>>

\* getRepoTree resolves with tree
LoadRepoTree(i, tree) ==
    /\ i \in DOMAIN inflight /\ inflight[i].kind = "load"
    /\ CanSnapshot
    /\ \E first \in FirstOpenFile :
         LET r == inflight[i]
             s1 == setFileSystem(store, New1(NullsFor(tree)), TRUE)
             s2 == setGithubState(s1, [ initialGithubFileSystem |-> New2(NullsFor(tree)),
                                        changedFiles |-> <<>>,
                                        gitTree |-> GitTree(tree) ])
             \* readmePath: the key that ends with 'readme.md'
             opens == RelPath(ReadmePath) \in tree
             sel == handleFileSelect(s2, r.c, ReadmePath, first)
         IN IF opens /\ sel.fetch
            THEN Becomes(sel.store,
                         [inflight EXCEPT ![i] = [Pending("loadFetch", ReadmePath, FetchClosure(r.c))
                                                     EXCEPT !.stale = r.stale, !.touched = r.touched]])
            ELSE Becomes(loadRepoFinally(IF opens THEN sel.store ELSE setActiveFile(s2, NoFile)),
                         Remove(inflight, i))
    /\ last' = Op("loadRepoTree")
    /\ ui' = (IF Len(inflight') < Len(inflight) THEN setIsLoading(FALSE) ELSE ui)
    /\ UNCHANGED <<round, db>>

LoadRepoFail(i) ==
    /\ i \in DOMAIN inflight /\ inflight[i].kind = "load"
    /\ Becomes(loadRepoFinally(setError(store, ErrorMessage)), Remove(inflight, i))
    /\ last' = Returned("loadRepoFail", inflight[i], {})
    /\ ui' = setIsLoading(FALSE)
    /\ UNCHANGED <<round, db>>

\* handleCommitAndPush up to its await
handleCommitAndPush(call) ==
    /\ Ready /\ CanStart
    /\ store.selectedRepoFullName # "" /\ store.selectedBranchName # ""
    /\ ~IsNull(store.initialGithubFileSystem)
    /\ Becomes(setError(store, ""), Append(inflight, call))
    /\ last' = Op("handleCommitAndPush")
    /\ ui' = setIsLoading(TRUE)
    /\ UNCHANGED <<round, db>>

\* here the call to githubService.commitAndPush is one step that resolves or rejects
CommitAndPush == handleCommitAndPush(Pending("push", NoFile, PushClosure))

\* commitAndPush resolves
PushDone(i) ==
    /\ i \in DOMAIN inflight /\ inflight[i].kind = "push"
    /\ Becomes(pushSucceeded(store, inflight[i].c), Remove(inflight, i))
    /\ last' = Returned("pushDone", inflight[i], {})
    /\ ui' = setIsLoading(FALSE)
    /\ UNCHANGED <<round, db>>

PushFail(i) ==
    /\ i \in DOMAIN inflight /\ inflight[i].kind = "push"
    /\ Becomes(setError(store, ErrorMessage), Remove(inflight, i))
    /\ last' = Returned("pushFail", inflight[i], {})
    /\ ui' = setIsLoading(FALSE)
    /\ UNCHANGED <<round, db>>

Next ==
    \/ \E saved \in SavedStates : Mount(saved)
    \/ OrbUndo
    \/ OrbRedo
    \/ \E c \in TypedContents : CodeEditorChange(c)
    \/ \E p \in OpenablePaths : NewFile(p)
    \/ \E p \in FolderNames : NewFolder(p)
    \/ \E p \in OpenablePaths : FileSelect(p)
    \/ \E i \in 1..MaxInflight, c \in BlobContents : FetchDone(i, c)
    \/ \E i \in 1..MaxInflight : FetchFail(i)
    \/ GithubConnect
    \/ \E repo \in Repos : RepoSelected(repo)
    \/ \E b \in Branches : BranchSelected(b)
    \/ GithubDisconnect
    \/ LoadRepo
    \/ \E i \in 1..MaxInflight, tree \in TreeListings : LoadRepoTree(i, tree)
    \/ \E i \in 1..MaxInflight : LoadRepoFail(i)
    \/ CommitAndPush
    \/ \E i \in 1..MaxInflight : PushDone(i)
    \/ \E i \in 1..MaxInflight : PushFail(i)

Spec == Init /\ [][Next]_vars

----------------------------------------------------------------------------
(* The change list of the panel *)

\* C8: in every reachable state, a path whose live value is the unfetched
\* placeholder (null) and whose baseline entry holds real content is not
\* reported in changedFiles as modified or deleted.
UnfetchedNeverReported ==
    \A i \in DOMAIN store.changedFiles :
        LET c == store.changedFiles[i]
        IN (/\ store.fileSystem.m[c.path] = Null
            /\ ~IsNull(store.initialGithubFileSystem)
            /\ store.initialGithubFileSystem.m[c.path] \in Contents)
           => c.status \notin {"modified", "deleted"}

\* C9: after every store action, changedFiles equals the diff of the current
\* live table against the current baseline, and is empty when the baseline
\* is null.
ChangedFilesIsDiff ==
    store.changedFiles =
        IF IsNull(store.initialGithubFileSystem) THEN <<>>
        ELSE ComputeChangedFiles(store.fileSystem.m, store.initialGithubFileSystem.m)

----------------------------------------------------------------------------
(* The AI handlers of the panel: chat, the staged edits of a chat reply,     *)
(* refine and the simulated terminal.                                        *)

MaxChat == 4    \* chat messages kept: the system message, a notice, one prompt, one reply

Edit(path, content) == [path |-> path, content |-> content]
\* result.code of chatWithAgent: absent, or a list of edits
ProposedEdits ==
    { <<>>,
      <<Edit(ReadmePath, "chat")>>,
      <<Edit(MarkerPath, "chat"), Edit(ReadmePath, "chat")>> }
\* what refineCodeWithAgent returns
RefinedContents == {"refined"}
\* result.fileSystemChanges of runCommandInTerminal; a change without
\* content has content Absent
Change(action, path, content) == [action |-> action, path |-> path, content |-> content]
TerminalChanges ==
    { <<>>,
      <<Change("update", ReadmePath, "ran")>>,
      <<Change("create", ReadmePath, Absent)>>,
      <<Change("delete", ReadmePath, Absent)>>,
      <<Change("delete", MarkerPath, Absent)>> }

LastFor(xs, p) == CHOOSE i \in DOMAIN xs : xs[i].path = p /\ \A j \in DOMAIN xs : xs[j].path = p => j <= i

\* pendingCodeChanges.forEach(({ path, content }) => { newFs[path] = content })
ApplyEdits(M, edits) ==
    [p \in Paths |->
        IF \E i \in DOMAIN edits : edits[i].path = p THEN edits[LastFor(edits, p)].content ELSE M[p]]

\* result.fileSystemChanges.forEach: create and update write content || '',
\* delete removes the key
ApplyChanges(M, changes) ==
    [p \in DOMAIN M |->
        IF \E i \in DOMAIN changes : changes[i].path = p
        THEN LET ch == changes[LastFor(changes, p)]
             IN IF ch.action = "delete" THEN Absent
                ELSE IF ch.content = Absent THEN "" ELSE ch.content
        ELSE M[p]]

\* the render values an AI handler reads after its await: fileSystem, activeFile
AIClosure ==
    [NoClosure EXCEPT !.fileSystem = store.fileSystem, !.activeFile = store.activeFile]

\* the try block of handleChatSubmit after chatWithAgent has resolved
chatCompleted_appliesCode(s, c, code) ==
    LET s1 == addChatMessage(s, ChatMessage("model", code))
    IN IF code = <<>> THEN s1 ELSE setFileSystem(s1, New1(ApplyEdits(c.fileSystem.m, code)), TRUE)

chatCompleted(s, c, code) == addChatMessage(s, ChatMessage("model", code))

\* the try block of handleRefineCode after refineCodeWithAgent has resolved
refineCompleted(s, c, newContent) ==
    setFileSystem(s, New1(With(c.fileSystem.m, c.activeFile, newContent)), TRUE)

\* the try block of handleTerminalSubmit after runCommandInTerminal has resolved
terminalCompleted(s, c, changes) ==
    IF changes # <<>>
    THEN setFileSystem(s, New1(ApplyChanges(c.fileSystem.m, changes)), TRUE)
    ELSE s

\* handleChatSubmit up to its await
ChatSubmit ==
    /\ Ready /\ CanStart
    /\ ~ui.isLoading
    /\ Len(store.chatHistory) + 2 <= MaxChat
    /\ Becomes(setError(addChatMessage(store, ChatMessage("user", <<>>)), ""),
               Append(inflight, Pending("chat", NoFile, AIClosure)))
    /\ ui' = setIsLoading(TRUE)
    /\ last' = Op("handleChatSubmit")
    /\ UNCHANGED <<round, db>>

\* chatWithAgent resolves with a reply that proposes the edits code
ChatResponse(i, code) ==
    /\ i \in DOMAIN inflight /\ inflight[i].kind = "chat"
    /\ Becomes(chatCompleted(store, inflight[i].c, code), Remove(inflight, i))
    /\ ui' = setIsLoading(FALSE)
    /\ last' = Returned("chatResponse", inflight[i], {})
    /\ UNCHANGED <<round, db>>

ChatFail(i) ==
    /\ i \in DOMAIN inflight /\ inflight[i].kind = "chat"
    /\ Becomes(setError(store, ErrorMessage), Remove(inflight, i))
    /\ ui' = setIsLoading(FALSE)
    /\ last' = Returned("chatFail", inflight[i], {})
    /\ UNCHANGED <<round, db>>

\* handleApplyCode(message.code), from the button of a chat message
ApplyCode(k) ==
    /\ k \in DOMAIN store.chatHistory
    /\ store.chatHistory[k].code # <<>>
    /\ ui' = [ui EXCEPT !.pendingCodeChanges = store.chatHistory[k].code]
    /\ last' = Op("handleApplyCode")
    /\ UNCHANGED <<store, inflight, round, db>>

\* handleConfirmApplyChanges({ action: 'apply' })
ConfirmApply ==
    /\ ui.pendingCodeChanges # NoChanges
    /\ CanSnapshot
    /\ LET s1 == setFileSystem(store, New1(ApplyEdits(store.fileSystem.m, ui.pendingCodeChanges)), TRUE)
           sel == handleFileSelect(s1, LoadClosure, ui.pendingCodeChanges[1].path, NoFile)
       IN /\ ~sel.fetch
          /\ Becomes(sel.store, Touched(inflight))
    /\ ui' = [ui EXCEPT !.pendingCodeChanges = NoChanges]
    /\ last' = Op("handleConfirmApplyChanges")
    /\ UNCHANGED <<round, db>>

\* handleConfirmApplyChanges({ action: 'save_as', newPath })
ConfirmSaveAs(newPath) ==
    /\ ui.pendingCodeChanges # NoChanges
    /\ Len(ui.pendingCodeChanges) = 1
    /\ CanSnapshot
    /\ LET s1 == setFileSystem(store, New1(With(store.fileSystem.m, newPath,
                                                  ui.pendingCodeChanges[1].content)), TRUE)
           sel == handleFileSelect(s1, LoadClosure, newPath, NoFile)
       IN /\ ~sel.fetch
          /\ Becomes(sel.store, Touched(inflight))
    /\ ui' = [ui EXCEPT !.pendingCodeChanges = NoChanges]
    /\ last' = Op("handleConfirmApplyChanges")
    /\ UNCHANGED <<round, db>>

\* onClose of the confirmation dialog
CancelApply ==
    /\ ui.pendingCodeChanges # NoChanges
    /\ ui' = [ui EXCEPT !.pendingCodeChanges = NoChanges]
    /\ last' = Op("onClose")
    /\ UNCHANGED <<store, inflight, round, db>>

\* handleRefineCode up to its await; its button is disabled while isRefining
RefineCode ==
    /\ Ready /\ CanStart
    /\ ~ui.isRefining
    /\ store.activeFile # NoFile
    /\ Becomes(setError(store, ""), Append(inflight, Pending("refine", NoFile, AIClosure)))
    /\ ui' = [ui EXCEPT !.isRefining = TRUE]
    /\ last' = Op("handleRefineCode")
    /\ UNCHANGED <<round, db>>

RefineResponse(i, newContent) ==
    /\ i \in DOMAIN inflight /\ inflight[i].kind = "refine"
    /\ CanSnapshot
    /\ Becomes(refineCompleted(store, inflight[i].c, newContent), Remove(inflight, i))
    /\ ui' = [ui EXCEPT !.isRefining = FALSE]
    /\ last' = [Returned("refineResponse", inflight[i], {inflight[i].c.activeFile})
                    EXCEPT !.snap = TRUE]
    /\ UNCHANGED <<round, db>>

RefineFail(i) ==
    /\ i \in DOMAIN inflight /\ inflight[i].kind = "refine"
    /\ Becomes(setError(store, ErrorMessage), Remove(inflight, i))
    /\ ui' = [ui EXCEPT !.isRefining = FALSE]
    /\ last' = Returned("refineFail", inflight[i], {})
    /\ UNCHANGED <<round, db>>

\* handleTerminalSubmit up to its await
TerminalSubmit ==
    /\ Ready /\ CanStart
    /\ Becomes(store, Append(inflight, Pending("terminal", NoFile, AIClosure)))
    /\ ui' = [ui EXCEPT !.isTerminalLoading = TRUE]
    /\ last' = Op("handleTerminalSubmit")
    /\ UNCHANGED <<round, db>>

TerminalResponse(i, changes) ==
    /\ i \in DOMAIN inflight /\ inflight[i].kind = "terminal"
    /\ changes # <<>> => CanSnapshot
    /\ Becomes(terminalCompleted(store, inflight[i].c, changes), Remove(inflight, i))
    /\ ui' = [ui EXCEPT !.isTerminalLoading = FALSE]
    /\ last' = [Returned("terminalResponse", inflight[i],
                          {changes[k].path : k \in DOMAIN changes})
                    EXCEPT !.snap = (changes # <<>>)]
    /\ UNCHANGED <<round, db>>

TerminalFail(i) ==
    /\ i \in DOMAIN inflight /\ inflight[i].kind = "terminal"
    /\ Becomes(store, Remove(inflight, i))
    /\ ui' = [ui EXCEPT !.isTerminalLoading = FALSE]
    /\ last' = Returned("terminalFail", inflight[i], {})
    /\ UNCHANGED <<round, db>>

NextAI ==
    \/ \E saved \in SavedStates : Mount(saved)
    \/ OrbUndo
    \/ OrbRedo
    \/ \E c \in TypedContents : CodeEditorChange(c)
    \/ ChatSubmit
    \/ \E i \in 1..MaxInflight, code \in ProposedEdits : ChatResponse(i, code)
    \/ \E i \in 1..MaxInflight : ChatFail(i)
    \/ \E k \in 1..MaxChat : ApplyCode(k)
    \/ ConfirmApply
    \/ \E p \in Paths : ConfirmSaveAs(p)
    \/ CancelApply
    \/ RefineCode
    \/ \E i \in 1..MaxInflight, c \in RefinedContents : RefineResponse(i, c)
    \/ \E i \in 1..MaxInflight : RefineFail(i)
    \/ TerminalSubmit
    \/ \E i \in 1..MaxInflight, ch \in TerminalChanges : TerminalResponse(i, ch)
    \/ \E i \in 1..MaxInflight : TerminalFail(i)

SpecAI == Init /\ [][NextAI]_vars

ResponseArrivals == {"chatResponse", "refineResponse", "terminalResponse"}
HoldsChatContent(fs) == \E p \in Paths : fs.m[p] = "chat"

\* C10 as stated: no AI response is written into the live table when it
\* arrives; the table changes only on the user's confirmation of staged edits.
NoResponseWritesTable ==
    [][last'.op \in ResponseArrivals => store'.fileSystem.m = store.fileSystem.m]_vars

\* the tables of a state: the live one, the snapshots, those held by pending calls
HeldTables ==
    {store.fileSystem} \cup Range(store.fileSystemHistory)
        \cup {inflight[i].c.fileSystem : i \in DOMAIN inflight}

\* C10, amended: the edits a chat reply proposes are not written into the live
\* table when the reply arrives; they first enter a table when the user
\* confirms the staged edits. A refine result and the file changes of a
\* terminal result are written, with a snapshot, when their response arrives.
ChatEditsOnlyOnConfirm ==
    [][/\ last'.op = "chatResponse" =>
            /\ store'.fileSystem.m = store.fileSystem.m
            /\ Len(store'.fileSystemHistory) = Len(store.fileSystemHistory)
            /\ \A i \in DOMAIN store.fileSystemHistory :
                   store'.fileSystemHistory[i].m = store.fileSystemHistory[i].m
            /\ store'.currentHistoryIndex = store.currentHistoryIndex
       /\ (HoldsChatContent(store'.fileSystem) /\ \A t \in HeldTables : ~HoldsChatContent(t)) =>
            last'.op = "handleConfirmApplyChanges"
       /\ (last'.op \in {"refineResponse", "terminalResponse"} /\ last'.snap) =>
            /\ store'.currentHistoryIndex = store.currentHistoryIndex + 1
            /\ Len(store'.fileSystemHistory) = store.currentHistoryIndex + 2
            /\ store'.fileSystem = store'.fileSystemHistory[store'.currentHistoryIndex + 1]
      ]_vars

\* a chat reply proposing edits has arrived and the table holds none of them
W_ChatEditsOnlyOnConfirm ==
    /\ last.op = "chatResponse"
    /\ store.chatHistory[Len(store.chatHistory)].code # <<>>
    /\ ~HoldsChatContent(store.fileSystem)

----------------------------------------------------------------------------
(* githubService.commitAndPush, request by request *)

\* changes.map: a blob is created for every added or modified record
BlobsToCreate(changes) ==
    Cardinality({k \in DOMAIN changes : changes[k].status \in {"added", "modified"}})

Issue(r, call) == [r EXCEPT !.pc = call, !.calls = Append(@, call)]
Succeeded(r) == [r EXCEPT !.ok = Append(@, r.pc)]

\* awaiting Promise.all of the createBlob requests, all issued at once; with
\* none to create, or the last one created, createTree is issued
createBlobs(r) ==
    IF r.blobs = 0 THEN Issue(r, "createTree")
    ELSE [r EXCEPT !.pc = "createBlob", !.open = r.blobs,
                   !.calls = @ \o [k \in 1..r.blobs |-> "createBlob"]]

branchFound_updatesRefFirst(r) == Issue(Succeeded(r), "updateRef")

\* getBranch has resolved
branchFound(r) == createBlobs(Succeeded(r))

\* one createBlob has resolved
blobCreated(r) ==
    LET r1 == [Succeeded(r) EXCEPT !.open = @ - 1]
    IN IF r1.open = 0 THEN Issue(r1, "createTree") ELSE r1

\* createTree has resolved
treeCreated(r) == Issue(Succeeded(r), "createCommit")

\* createCommit has resolved
commitCreated(r) == Issue(Succeeded(r), "updateRef")

\* handleCommitAndPush up to the first await of commitAndPush: getBranch
PushStart ==
    handleCommitAndPush(Issue([Pending("push", NoFile, PushClosure)
                                  EXCEPT !.blobs = BlobsToCreate(store.changedFiles)],
                              "getBranch"))

Awaits(i, call) == i \in DOMAIN inflight /\ inflight[i].kind = "push" /\ inflight[i].pc = call

ServiceStep(i, r, name) ==
    /\ Becomes(store, [inflight EXCEPT ![i] = r])
    /\ last' = Op(name)
    /\ UNCHANGED <<ui, round, db>>

BranchFound(i) == Awaits(i, "getBranch") /\ ServiceStep(i, branchFound(inflight[i]), "getBranch")
BlobCreated(i) == Awaits(i, "createBlob") /\ ServiceStep(i, blobCreated(inflight[i]), "createBlob")
TreeCreated(i) == Awaits(i, "createTree") /\ ServiceStep(i, treeCreated(inflight[i]), "createTree")
CommitCreated(i) ==
    Awaits(i, "createCommit") /\ ServiceStep(i, commitCreated(inflight[i]), "createCommit")

\* updateRef has resolved: commitAndPush returns the commit URL
RefUpdated(i) == Awaits(i, "updateRef") /\ PushDone(i)

\* the awaited request rejects: the catch of commitAndPush rethrows
RequestFailed(i) == i \in DOMAIN inflight /\ inflight[i].pc # "" /\ PushFail(i)

NextPush ==
    \/ \E saved \in SavedStates : Mount(saved)
    \/ OrbUndo
    \/ OrbRedo
    \/ \E c \in TypedContents : CodeEditorChange(c)
    \/ GithubConnect
    \/ \E repo \in Repos : RepoSelected(repo)
    \/ \E b \in Branches : BranchSelected(b)
    \/ LoadRepo
    \/ \E i \in 1..MaxInflight, tree \in TreeListings : LoadRepoTree(i, tree)
    \/ \E i \in 1..MaxInflight, c \in BlobContents : FetchDone(i, c)
    \/ PushStart
    \/ \E i \in 1..MaxInflight : BranchFound(i)
    \/ \E i \in 1..MaxInflight : BlobCreated(i)
    \/ \E i \in 1..MaxInflight : TreeCreated(i)
    \/ \E i \in 1..MaxInflight : CommitCreated(i)
    \/ \E i \in 1..MaxInflight : RefUpdated(i)
    \/ \E i \in 1..MaxInflight : RequestFailed(i)

SpecPush == Init /\ [][NextPush]_vars

BeforeRefUpdate(n) == <<"getBranch">> \o [k \in 1..n |-> "createBlob"] \o <<"createTree", "createCommit">>

\* C17: commitAndPush issues the reference update only after the branch
\* lookup, every blob creation, the tree creation and the commit creation have
\* succeeded, in that order; when one of these fails no reference update is
\* issued, the handler reports an error, and baseline and changedFiles are
\* left unchanged.
RefAdvancedLast ==
    [][/\ \A i \in DOMAIN inflight' :
            inflight'[i].pc = "updateRef" =>
                /\ inflight'[i].ok = BeforeRefUpdate(inflight'[i].blobs)
                /\ inflight'[i].calls = Append(inflight'[i].ok, "updateRef")
       /\ (last'.op = "pushFail" /\ last'.pc # "updateRef") =>
            /\ \A k \in DOMAIN last'.calls : last'.calls[k] # "updateRef"
            /\ store'.error # ""
            /\ IsNull(store'.initialGithubFileSystem) = IsNull(store.initialGithubFileSystem)
            /\ store'.initialGithubFileSystem.m = store.initialGithubFileSystem.m
            /\ store'.changedFiles = store.changedFiles]_vars

\* the commit creation of a push with a blob has failed
W_RefAdvancedLast ==
    /\ last.op = "pushFail" /\ last.pc = "createCommit"
    /\ last.calls = <<"getBranch", "createBlob", "createTree", "createCommit">>

----------------------------------------------------------------------------
(* Pending calls against the user's own edits *)

\* C11: a table mutation the user makes while an external call is pending is
\* not lost: when the call returns and writes its result, every path the call
\* does not write itself keeps the value the live table had just before.
PendingCallKeepsUserEdits ==
    [][(last'.op \in {"refineResponse", "terminalResponse"} /\ last'.snap) =>
           \A p \in Paths \ last'.paths : store'.fileSystem.m[p] = store.fileSystem.m[p]]_vars

\* C12: the result of a blob fetch that arrives after the repository context
\* it was started in has been left (another repository load was started, or
\* the user disconnected) is ignored: neither the live table nor the baseline
\* changes.
StaleFetchIgnored ==
    [][(last'.op \in {"fetchDone", "loadFetchDone"} /\ last'.stale) =>
           /\ store'.fileSystem.m = store.fileSystem.m
           /\ IsNull(store'.initialGithubFileSystem) = IsNull(store.initialGithubFileSystem)
           /\ store'.initialGithubFileSystem.m = store.initialGithubFileSystem.m]_vars

\* C13: when an external call of the GitHub panel fails (repository tree
\* load, blob fetch, push), the operation sets a user-visible error, the
\* failure changes neither the history nor the cursor, and the live table is
\* the one from before the operation started unless the user has changed it
\* in the meantime.
FailureLeavesTable ==
    [][last'.op \in {"loadRepoFail", "fetchFail", "pushFail"} =>
           /\ store'.error # ""
           /\ store'.currentHistoryIndex = store.currentHistoryIndex
           /\ Len(store'.fileSystemHistory) = Len(store.fileSystemHistory)
           /\ \A i \in DOMAIN store.fileSystemHistory :
                  store'.fileSystemHistory[i].m = store.fileSystemHistory[i].m
           /\ ~last'.touched => store'.fileSystem.m = last'.arg]_vars

\* C14: remote sync never changes the live table without recording it in
\* history: after a step of a repository load or of a lazy blob fetch has
\* changed the live table, the live table equals the snapshot at the cursor.
SyncWritesAreSnapshots ==
    [][(/\ last'.op \in {"handleLoadRepo", "loadRepoTree", "fetchDone", "loadFetchDone"}
        /\ store'.fileSystem.m # store.fileSystem.m) =>
           store'.fileSystem.m = store'.fileSystemHistory[store'.currentHistoryIndex + 1].m]_vars

Keys(M) == {p \in Paths : M[p] # Absent}
ListedPaths == {p \in Paths : RelPath(p) \in store.gitTree.items}
\* handleLoadRepo has just returned without an error of its own, and the user
\* has not disconnected while it ran. (What the user did to the table while
\* it ran has no influence: the load writes whole tables.)
LoadJustSucceeded ==
    \/ last.op = "loadRepoTree" /\ ~store.isLoadingFromGithub
    \/ last.op = "loadFetchDone" /\ ~last.stale

\* C15: after a successful repository load, the first or a later one, the keys
\* of the live table are exactly '/'+path for the paths of the tree just
\* fetched, the baseline has the same keys, every entry not opened holds the
\* unfetched placeholder in both, and changedFiles is empty.
LoadedTableIsTree ==
    LoadJustSucceeded =>
        /\ Keys(store.fileSystem.m) = ListedPaths
        /\ ~IsNull(store.initialGithubFileSystem)
        /\ Keys(store.initialGithubFileSystem.m) = ListedPaths
        /\ \A p \in ListedPaths \ {store.activeFile} :
               /\ store.fileSystem.m[p] = Null
               /\ store.initialGithubFileSystem.m[p] = Null
        /\ store.changedFiles = <<>>

\* C16 as stated: immediately after a push completes successfully, the
\* baseline equals the live table and changedFiles is empty.
PushedBaselineIsLive ==
    last.op = "pushDone" =>
        /\ ~IsNull(store.initialGithubFileSystem)
        /\ store.initialGithubFileSystem.m = store.fileSystem.m
        /\ store.changedFiles = <<>>

\* C16, amended: immediately after a push completes successfully, the
\* baseline is the table that was pushed, the live table of the moment the
\* push was started; when the live table still has that content, changedFiles
\* is empty.
PushedBaselineIsPushedTable ==
    [][last'.op = "pushDone" =>
           /\ ~IsNull(store'.initialGithubFileSystem)
           /\ store'.initialGithubFileSystem.m = last'.arg
           /\ store'.fileSystem.m = last'.arg => store'.changedFiles = <<>>]_vars

\* a push has completed after the user changed the table while it was pending
W_PushedBaselineIsPushedTable ==
    /\ last.op = "pushDone" /\ last.touched
    /\ store.fileSystem.m # store.initialGithubFileSystem.m

SameBaseline ==
    /\ IsNull(store'.initialGithubFileSystem) = IsNull(store.initialGithubFileSystem)
    /\ store'.initialGithubFileSystem.m = store.initialGithubFileSystem.m
SameTableAndHistory ==
    /\ store'.fileSystem.m = store.fileSystem.m
    /\ store'.currentHistoryIndex = store.currentHistoryIndex
    /\ Len(store'.fileSystemHistory) = Len(store.fileSystemHistory)
    /\ \A i \in DOMAIN store.fileSystemHistory :
           store'.fileSystemHistory[i].m = store.fileSystemHistory[i].m

\* C18: the baseline is changed only by a repository load, a lazy blob fetch,
\* a successful push and a disconnect; table writes, undo and redo leave it
\* unchanged; a disconnect sets the baseline to null and changedFiles to
\* empty and leaves the live table, the history and the cursor unchanged.
BaselineFrame ==
    [][/\ ~SameBaseline =>
            last'.op \in {"handleLoadRepo", "loadRepoTree", "fetchDone", "loadFetchDone",
                          "pushDone", "handleGithubDisconnect"}
       /\ last'.op \in {"onChange", "handleNewFile", "handleNewFolder", "undo", "redo"} => SameBaseline
       /\ last'.op = "handleGithubDisconnect" =>
            /\ IsNull(store'.initialGithubFileSystem)
            /\ store'.changedFiles = <<>>
            /\ SameTableAndHistory]_vars

\* the user has disconnected with a loaded repository in the live table
W_BaselineFrame ==
    /\ last.op = "handleGithubDisconnect"
    /\ Len(store.fileSystemHistory) = 2
    /\ store.fileSystem.m[ReadmePath] = Null
    /\ IsNull(store.initialGithubFileSystem)

\* C19: a request for a new file at a path that has an entry, with content
\* or null, and a request for a new folder whose '.placeholder' entry
\* exists, are rejected: the table, the history and the cursor are unchanged.
ExistingPathRejected ==
    [][last'.op \in {"handleNewFile", "handleNewFolder"} =>
           \A p \in last'.paths :
               store.fileSystem.m[p] # Absent => SameTableAndHistory]_vars

\* a new file was asked for at the path of an entry that was never fetched
W_ExistingPathRejected ==
    /\ last.op = "handleNewFile"
    /\ last.pc = "alert"
    /\ last.paths = {ReadmePath}
    /\ store.fileSystem.m[ReadmePath] = Null

-----------------------------------------------------------------------------
(* Archive import: handleFileUpload, the unpack dialog, handleConfirmUnpack
   and the chat request it schedules.  A string with slashes is the sequence
   of its parts: "/containers/" is <<"", "containers", "">>.                *)

\* what the dialog can pass: "/", "containers", "/containers/"
Destinations == { <<"", "">>, <<"containers">>, <<"", "containers", "">> }
\* the files of an archive, by relative path; each holds "x"
ArchiveListings == { {}, {<<"README.md">>}, {<<".placeholder">>} }
UploadedFiles == {"zip", "text"}

StartsWithSlash(d) == Len(d) >= 2 /\ d[1] = ""
EndsWithSlash(d) == Len(d) >= 2 /\ d[Len(d)] = ""

\* the normalisation of destinationPath
cleanDestinationPath(destinationPath) ==
    LET c1 == IF StartsWithSlash(destinationPath) THEN destinationPath
              ELSE <<"">> \o destinationPath
        c2 == IF EndsWithSlash(c1) THEN SubSeq(c1, 1, Len(c1) - 1) ELSE c1
    IN IF c2 = <<"", "">> THEN <<"">> ELSE c2

\* `${cleanDestinationPath}/${relativePath}`.replace('//', '/')
fullPath(clean, relativePath) ==
    LET joined == clean \o relativePath
        doubles == { k \in 2..(Len(joined) - 1) : joined[k] = "" }
    IN IF doubles = {} THEN joined
       ELSE LET k == CHOOSE j \in doubles : \A h \in doubles : j <= h
            IN SubSeq(joined, 1, k - 1) \o SubSeq(joined, k + 1, Len(joined))

\* handleConfirmUnpack reads fileSystem, and the handleChatSubmit it calls
\* reads isLoading, both of the render in which the dialog was confirmed
UnpackClosure ==
    [ fileSystem |-> store.fileSystem, initialGithubFileSystem |-> NullFS, gitTree |-> NoGitTree,
      selectedRepoFullName |-> "", activeFile |-> store.activeFile, isLoading |-> ui.isLoading ]

\* the try block of handleConfirmUnpack after the archive has been read
unpackCompleted(s, c, clean, entries) ==
    LET newFs == [p \in Paths |->
                     IF \E e \in entries : fullPath(clean, e) = p THEN "x" ELSE c.fileSystem.m[p]]
    IN addChatMessage(setFileSystem(s, New1(newFs), TRUE), SystemMessage)

\* the catch block of handleConfirmUnpack
unpackFailed(s) == addChatMessage(setError(s, ErrorMessage), SystemMessage)

\* the finally block of handleConfirmUnpack: setPendingZip(null) and nothing else
unpackFinally(u) == [u EXCEPT !.pendingZip = FALSE]

\* handleFileUpload: an archive opens the dialog, a text file is written
FileUpload(kind) ==
    /\ Ready
    /\ IF kind = "zip"
       THEN /\ ui' = [ui EXCEPT !.pendingZip = TRUE]
            /\ UNCHANGED <<store, inflight>>
       ELSE /\ CanSnapshot
            /\ Becomes(setFileSystem(store, New1(With(store.fileSystem.m, ReadmePath, "x")), TRUE),
                       Touched(inflight))
            /\ UNCHANGED ui
    /\ last' = Op("handleFileUpload")
    /\ UNCHANGED <<round, db>>

\* onClose of the unpack dialog
CancelUnpack ==
    /\ ui.pendingZip
    /\ ui' = [ui EXCEPT !.pendingZip = FALSE]
    /\ last' = Op("onClose")
    /\ UNCHANGED <<store, inflight, round, db>>

\* handleConfirmUnpack up to its await
ConfirmUnpack(destinationPath) ==
    /\ Ready /\ CanStart
    /\ ui.pendingZip
    /\ Len(store.chatHistory) + (IF ui.isLoading THEN 1 ELSE 3) <= MaxChat
    /\ Becomes(setError(store, ""),
               Append(inflight, Pending("unpack", cleanDestinationPath(destinationPath), UnpackClosure)))
    /\ ui' = setIsLoading(TRUE)
    /\ last' = Op("handleConfirmUnpack")
    /\ UNCHANGED <<round, db>>

\* zip.loadAsync resolves: the table is written and the chat request is
\* scheduled 100 ms later
UnpackDone(i, entries) ==
    /\ i \in DOMAIN inflight /\ inflight[i].kind = "unpack"
    /\ CanSnapshot
    /\ \A e \in entries : fullPath(inflight[i].path, e) \in Paths
    /\ Becomes(unpackCompleted(store, inflight[i].c, inflight[i].path, entries),
               [inflight EXCEPT ![i].kind = "unpackTimer",
                                ![i].calls = <<{ fullPath(inflight[i].path, e) : e \in entries }>>])
    /\ ui' = unpackFinally(ui)
    /\ last' = [Returned("unpackDone", inflight[i],
                         { fullPath(inflight[i].path, e) : e \in entries })
                    EXCEPT !.snap = TRUE]
    /\ UNCHANGED <<round, db>>

\* zip.loadAsync rejects
UnpackFail(i) ==
    /\ i \in DOMAIN inflight /\ inflight[i].kind = "unpack"
    /\ Becomes(unpackFailed(store), Remove(inflight, i))
    /\ ui' = unpackFinally(ui)
    /\ last' = Returned("unpackFail", inflight[i], {})
    /\ UNCHANGED <<round, db>>

\* the timer fires: handleChatSubmit(e, aiPrompt) of the confirming render,
\* up to its await; the step records the paths the unpack wrote
UnpackTimer(i) ==
    /\ i \in DOMAIN inflight /\ inflight[i].kind = "unpackTimer"
    /\ IF inflight[i].c.isLoading
       THEN /\ Becomes(store, Remove(inflight, i))
            /\ UNCHANGED ui
       ELSE /\ Becomes(setError(addChatMessage(store, ChatMessage("user", <<>>)), ""),
                       [inflight EXCEPT ![i] =
                            Pending("chat", NoFile,
                                    [NoClosure EXCEPT !.fileSystem = inflight[i].c.fileSystem,
                                                      !.activeFile = inflight[i].c.activeFile])])
            /\ ui' = setIsLoading(TRUE)
    /\ last' = [Op("handleChatSubmit") EXCEPT !.pc = "unpackTimer",
                                              !.paths = inflight[i].calls[1]]
    /\ UNCHANGED <<round, db>>

NextUnpack ==
    \/ \E saved \in SavedStates : Mount(saved)
    \/ OrbUndo
    \/ OrbRedo
    \/ \E c \in TypedContents : CodeEditorChange(c)
    \/ \E kind \in UploadedFiles : FileUpload(kind)
    \/ CancelUnpack
    \/ \E d \in Destinations : ConfirmUnpack(d)
    \/ \E i \in 1..MaxInflight, entries \in ArchiveListings : UnpackDone(i, entries)
    \/ \E i \in 1..MaxInflight : UnpackFail(i)
    \/ \E i \in 1..MaxInflight : UnpackTimer(i)
    \/ ChatSubmit
    \/ \E i \in 1..MaxInflight, code \in ProposedEdits : ChatResponse(i, code)
    \/ \E i \in 1..MaxInflight : ChatFail(i)

SpecUnpack == Init /\ [][NextUnpack]_vars

\* C20: the loading flag never stays set with no request in flight: after a
\* failed operation, an archive that cannot be unpacked among them, the flag
\* is cleared and the chat form can be used again.
LoadingOnlyWhilePending == ui.isLoading => inflight # <<>>

\* C28: the chat request scheduled 100 ms after a successful unpack is sent
\* with a file table that already contains the unpacked files.
UnpackChatSeesUnpackedFiles ==
    (last.op = "handleChatSubmit" /\ last.pc = "unpackTimer") =>
        \A i \in DOMAIN inflight :
            inflight[i].kind = "chat" =>
                \A p \in last.paths : inflight[i].c.fileSystem.m[p] = "x"

-----------------------------------------------------------------------------
(* The preview: updatePreview chooses what the iframe shows from the table
   and the preview root.  A document is modelled by the branch that built
   it, its title and the content it embeds; the wording of the theme is not
   modelled.                                                              *)

\* fileSystem[path] for a path the table may not have
Get(m, path) == IF path \in DOMAIN m THEN m[path] ELSE Absent
IsString(v) == v \notin {Absent, Null}      \* typeof v === 'string'
Truthy(v) == v \notin {Absent, Null, ""}
Or(a, b) == IF Truthy(a) THEN a ELSE b       \* a || b

NoRoot == <<>>                               \* previewRoot: null
PreviewRoots == { NoRoot, <<"", "">>, <<"", "proj">>, <<"", "proj", "">> }   \* "/", "/proj", "/proj/"
PreviewDirs == { <<"">>, <<"", "proj">> }
PreviewNames == { "index.html", "README.md", "index.md", "App.tsx", "main.js" }
PreviewPaths == { d \o <<n>> : d \in PreviewDirs, n \in PreviewNames }
PreviewValues == { Absent, Null, "", "x" }

scriptFileNames ==
    << "index.tsx", "index.jsx", "App.tsx", "App.jsx", "main.tsx", "main.jsx",
       "index.ts", "index.js", "App.ts", "App.js", "main.ts", "main.js" >>

\* previewRoot === '/' ? '/' : (previewRoot.endsWith('/') ? previewRoot : `${previewRoot}/`)
basePathOf(previewRoot) ==
    IF previewRoot = <<"", "">> THEN <<"", "">>
    ELSE IF EndsWithSlash(previewRoot) THEN previewRoot
    ELSE previewRoot \o <<"">>

\* `${basePath}${name}`, basePath ending in a slash
InBase(basePath, name) == SubSeq(basePath, 1, Len(basePath) - 1) \o <<name>>

Doc(branch, title, content) == [branch |-> branch, title |-> title, content |-> content]
NoDoc == Doc("", "", "")

\* updatePreview: what setSrcDoc receives
updatePreview(fileSystem, previewRoot) ==
    IF previewRoot = NoRoot THEN Doc("selectRoot", "", "")
    ELSE
    LET basePath == basePathOf(previewRoot)
        indexHtml == Get(fileSystem, InBase(basePath, "index.html"))
        readmeMd == Get(fileSystem, InBase(basePath, "README.md"))
        indexMd == Get(fileSystem, InBase(basePath, "index.md"))
        found == { k \in DOMAIN scriptFileNames :
                     IsString(Get(fileSystem, InBase(basePath, scriptFileNames[k]))) }
    IN IF IsString(indexHtml) THEN Doc("html", "", indexHtml)
       ELSE IF IsString(readmeMd) \/ IsString(indexMd)
       THEN Doc("markdown", IF Truthy(readmeMd) THEN "README.md" ELSE "index.md",
                Or(Or(readmeMd, indexMd), ""))
       ELSE IF found # {}
       THEN LET k == CHOOSE j \in found : \A h \in found : j <= h
            IN Doc("code", scriptFileNames[k], Get(fileSystem, InBase(basePath, scriptFileNames[k])))
       ELSE Doc("none", "", "")

\* every table with files in one directory, and every preview root
InitPreview ==
    /\ \E d \in PreviewDirs, c \in [PreviewNames -> PreviewValues] :
         LET m == [p \in PreviewPaths |->
                      IF SubSeq(p, 1, Len(p) - 1) = d THEN c[p[Len(p)]] ELSE Absent]
         IN store = [InitialStore EXCEPT
                        !.isDBLoading = FALSE,
                        !.fileSystem = [id |-> 1, m |-> m],
                        !.fileSystemHistory = <<[id |-> 1, m |-> m]>>,
                        !.currentHistoryIndex = 0]
    /\ \E root \in PreviewRoots : ui = [previewRoot |-> root, srcDoc |-> NoDoc]
    /\ inflight = <<>>
    /\ last = NoOp
    /\ round = NoRound
    /\ db = NoSavedState

\* the effect that runs updatePreview
UpdatePreview ==
    /\ last = NoOp
    /\ ui' = [ui EXCEPT !.srcDoc = updatePreview(store.fileSystem.m, ui.previewRoot)]
    /\ last' = Op("updatePreview")
    /\ UNCHANGED <<store, inflight, round, db>>

NextPreview == UpdatePreview

SpecPreview == InitPreview /\ [][NextPreview]_vars

\* the file of the preview root with the given name
AtRoot(name) == Get(store.fileSystem.m, InBase(basePathOf(ui.previewRoot), name))
ScriptsWithContent == { k \in DOMAIN scriptFileNames : IsString(AtRoot(scriptFileNames[k])) }

\* C21: for a non-null preview root the preview is the HTML branch when
\* index.html holds content; otherwise the Markdown branch of README.md, or
\* of index.md when README.md holds none; otherwise the code fallback of the
\* first script file of the fixed order that holds content; otherwise the
\* placeholder.  An unfetched entry counts as absent.
PreviewPriority ==
    (last.op = "updatePreview" /\ ui.previewRoot # NoRoot) =>
        IF IsString(AtRoot("index.html"))
        THEN ui.srcDoc = Doc("html", "", AtRoot("index.html"))
        ELSE IF IsString(AtRoot("README.md"))
        THEN ui.srcDoc = Doc("markdown", "README.md", AtRoot("README.md"))
        ELSE IF IsString(AtRoot("index.md"))
        THEN ui.srcDoc = Doc("markdown", "index.md", AtRoot("index.md"))
        ELSE IF ScriptsWithContent # {}
        THEN \E k \in ScriptsWithContent :
                /\ \A h \in ScriptsWithContent : k <= h
                /\ ui.srcDoc = Doc("code", scriptFileNames[k], AtRoot(scriptFileNames[k]))
        ELSE ui.srcDoc = Doc("none", "", "")

-----------------------------------------------------------------------------
(* resolvePath: new URL(relative, `file://${baseDir}`).pathname.  The URL
   parser is modelled on the parts of a reference: '.' is dropped, '..'
   removes the last part of the path and stops at the root, a reference
   that begins with '/' starts from the root, and one that begins with '//'
   names a host, which is not part of the pathname.                        *)

MaxRefLen == 3      \* parts of a reference
RefParts == { "", ".", "..", "a", "c.css" }
RECURSIVE SeqsUpTo(_, _)
SeqsUpTo(S, n) ==
    IF n = 0 THEN {<<>>}
    ELSE LET shorter == SeqsUpTo(S, n - 1)
         IN shorter \cup { Append(q, x) : q \in shorter, x \in S }
References == SeqsUpTo(RefParts, MaxRefLen) \ {<<>>}
Bases == { <<"", "index.html">>, <<"", "a", "index.html">>,
           <<"", "a", "b", "index.html">>, <<"", "a", "b", "">> }

\* the URL parser's "shorten a path"
Shorten(path) == IF path = <<>> THEN <<>> ELSE SubSeq(path, 1, Len(path) - 1)

\* the URL parser's path state over the parts from the i-th on
RECURSIVE pathState(_, _, _)
pathState(path, parts, i) ==
    IF i > Len(parts) THEN path
    ELSE LET isLast == (i = Len(parts))
         IN IF parts[i] = ".."
            THEN pathState(IF isLast THEN Append(Shorten(path), "") ELSE Shorten(path), parts, i + 1)
            ELSE IF parts[i] = "."
            THEN pathState(IF isLast THEN Append(path, "") ELSE path, parts, i + 1)
            ELSE pathState(Append(path, parts[i]), parts, i + 1)

\* the path of a special URL is never empty
PathFrom(path, parts) == pathState(path, IF parts = <<>> THEN <<"">> ELSE parts, 1)

\* base.endsWith('/') ? base : base.substring(0, base.lastIndexOf('/') + 1)
baseDirOf(base) ==
    IF EndsWithSlash(base) THEN base ELSE SubSeq(base, 1, Len(base) - 1) \o <<"">>

\* new URL(relative, `file://${baseDir}`).pathname, baseDir beginning with '/'
pathnameOf(relative, baseDir) ==
    LET basePath == PathFrom(<<>>, Tail(baseDir))
        path == IF relative = <<"">> THEN basePath
                ELSE IF StartsWithSlash(relative)
                THEN IF Len(relative) >= 3 /\ relative[2] = ""
                     THEN PathFrom(<<>>, SubSeq(relative, 4, Len(relative)))
                     ELSE PathFrom(<<>>, Tail(relative))
                ELSE PathFrom(Shorten(basePath), relative)
    IN <<"">> \o path

resolvePath_keepsReference(base, relative) ==
    LET path == IF StartsWithSlash(relative) THEN relative
                ELSE pathnameOf(relative, baseDirOf(base))
    IN IF path[1] = "" /\ Len(path) >= 2 THEN path ELSE <<"">> \o path

\* resolvePath(base, relative)
resolvePath(base, relative) ==
    LET path == pathnameOf(relative, baseDirOf(base))
    IN IF path[1] = "" /\ Len(path) >= 2 THEN path ELSE <<"">> \o path

InitResolve ==
    /\ store = InitialStore
    /\ inflight = <<>>
    /\ \E base \in Bases, relative \in References :
         ui = [base |-> base, relative |-> relative, path |-> <<>>]
    /\ last = NoOp
    /\ round = NoRound
    /\ db = NoSavedState

\* updatePreview resolves the href of a link or the src of a script
ResolvePath ==
    /\ last = NoOp
    /\ ui' = [ui EXCEPT !.path = resolvePath(ui.base, ui.relative)]
    /\ last' = Op("resolvePath")
    /\ UNCHANGED <<store, inflight, round, db>>

NextResolve == ResolvePath

SpecResolve == InitResolve /\ [][NextResolve]_vars

IsName(part) == part \notin {"", ".", ".."}
\* the directory of the base, and its parent or the root
DirOf(base) == SubSeq(base, 1, Len(base) - 1)
ParentOf(dir) == IF Len(dir) = 1 THEN dir ELSE SubSeq(dir, 1, Len(dir) - 1)
\* what holds of every reference that does not begin with '/'
RelativeFormsResolved ==
    /\ ui.path[1] = "" /\ Len(ui.path) >= 2
    /\ \A n \in RefParts : IsName(n) =>
         /\ ui.relative = <<".", n>> => ui.path = DirOf(ui.base) \o <<n>>
         /\ ui.relative = <<n>> => ui.path = DirOf(ui.base) \o <<n>>
         /\ ui.relative = <<"..", n>> => ui.path = ParentOf(DirOf(ui.base)) \o <<n>>
    /\ (ui.base = <<"", "a", "b", "index.html">> /\ ui.relative = <<".", "c.css">>)
           => ui.path = <<"", "a", "b", "c.css">>
    /\ (ui.base = <<"", "a", "b", "index.html">> /\ ui.relative = <<"..", "c.css">>)
           => ui.path = <<"", "a", "c.css">>

PlainFromRoot(relative) ==
    /\ StartsWithSlash(relative)
    /\ \A k \in 2..Len(relative) : IsName(relative[k])

-----------------------------------------------------------------------------
(* Archives: what handleConfirmUnpack writes for a destination and an
   archive, and what handleDownloadProject puts into the archive it offers.
   An archive is the set of its entries; JSZip is taken to return on
   loadAsync the entries that zip.file stored.                              *)

Entry(name, dir, ok, content) == [name |-> name, dir |-> dir, ok |-> ok, content |-> content]
\* a.txt, dir/b.txt, the folder dir/ and a file that cannot be read as text
ArchiveEntries ==
    { Entry(<<"a.txt">>, FALSE, TRUE, "hi"),
      Entry(<<"dir", "b.txt">>, FALSE, TRUE, "x"),
      Entry(<<"dir", "">>, TRUE, TRUE, ""),
      Entry(<<"bin">>, FALSE, FALSE, "") }
Archives == SUBSET ArchiveEntries
NoArchive == {Entry(<<>>, TRUE, FALSE, "")}
\* "/", "proj", "/proj", "proj/", "/proj/", "/proj//", "//proj", "/proj///", "///"
ArchiveDestinations ==
    { <<"", "">>, <<"proj">>, <<"", "proj">>, <<"proj", "">>, <<"", "proj", "">>,
      <<"", "proj", "", "">>, <<"", "", "proj">>, <<"", "proj", "", "", "">>,
      <<"", "", "", "">> }
ExportPaths ==
    { <<"", "a.txt">>, <<"", "x", ".placeholder">>, <<"", "x", "b.txt">>, <<"", ".placeholder">> }
ExportTables == [ExportPaths -> {Absent, Null, "", "hi"}]
NoTable == [p \in {} |-> Absent]

\* the entries handleConfirmUnpack reads: not a directory, and readable as text
ReadableFiles(archive) == { e \in archive : ~e.dir /\ e.ok }

\* newFileUpdates of handleConfirmUnpack
newFileUpdates(destinationPath, archive) ==
    LET clean == cleanDestinationPath(destinationPath)
        keys == { fullPath(clean, e.name) : e \in ReadableFiles(archive) }
    IN [k \in keys |->
          (CHOOSE e \in ReadableFiles(archive) : fullPath(clean, e.name) = k).content]

\* path.endsWith('/.placeholder')
EndsInPlaceholder(path) == Len(path) >= 2 /\ path[Len(path)] = ".placeholder"

\* the folders zip.file creates for a name
FoldersOf(name) == { Entry(SubSeq(name, 1, k) \o <<"">>, TRUE, TRUE, "") : k \in 1..(Len(name) - 1) }

handleDownloadProject_keepsMarkers(fileSystem) ==
    LET files == { Entry(Tail(path), FALSE, TRUE, fileSystem[path]) :
                     path \in { q \in DOMAIN fileSystem : IsString(fileSystem[q]) } }
    IN files \cup UNION { FoldersOf(e.name) : e \in files }

\* handleDownloadProject: the archive that is generated
handleDownloadProject(fileSystem) ==
    LET files == { Entry(Tail(path), FALSE, TRUE, fileSystem[path]) :
                     path \in { q \in DOMAIN fileSystem :
                                  ~EndsInPlaceholder(q) /\ IsString(fileSystem[q]) } }
    IN files \cup UNION { FoldersOf(e.name) : e \in files }

\* either an archive and a destination for it, or a table to export
InitArchive ==
    /\ store = InitialStore
    /\ inflight = <<>>
    /\ \/ \E archive \in Archives, d \in ArchiveDestinations :
            ui = [table |-> NoTable, archive |-> archive, destinationPath |-> d,
                  written |-> NoTable]
       \/ \E table \in ExportTables :
            ui = [table |-> table, archive |-> NoArchive, destinationPath |-> <<"", "">>,
                  written |-> NoTable]
    /\ last = NoOp
    /\ round = NoRound
    /\ db = NoSavedState

\* the explorer's download button
DownloadProject ==
    /\ last = NoOp /\ ui.archive = NoArchive
    /\ ui' = [ui EXCEPT !.archive = handleDownloadProject(ui.table)]
    /\ last' = Op("handleDownloadProject")
    /\ UNCHANGED <<store, inflight, round, db>>

\* the archive is unpacked into an empty table
UnpackArchive ==
    /\ last.op \in {"init", "handleDownloadProject"} /\ ui.archive # NoArchive
    /\ ui' = [ui EXCEPT !.written = newFileUpdates(ui.destinationPath, ui.archive)]
    /\ last' = [Op("handleConfirmUnpack") EXCEPT !.snap = (last.op = "handleDownloadProject")]
    /\ UNCHANGED <<store, inflight, round, db>>

NextArchive == DownloadProject \/ UnpackArchive

SpecArchive == InitArchive /\ [][NextArchive]_vars

\* the destination as a prefix: its non-empty parts after the root
NormalPrefix(destinationPath) == <<"">> \o SelectSeq(destinationPath, LAMBDA part : part # "")

\* C23: for every destination and archive, unpacking writes one entry per
\* readable non-directory entry, at the normalised prefix followed by the
\* entry's relative path and with the entry's content, so that every key
\* begins with '/', has no '//' and is the same however the destination was
\* written with slashes.
UnpackedUnderPrefix ==
    (last.op = "handleConfirmUnpack" /\ ~last.snap) =>
        /\ DOMAIN ui.written =
              { NormalPrefix(ui.destinationPath) \o e.name : e \in ReadableFiles(ui.archive) }
        /\ Cardinality(DOMAIN ui.written) = Cardinality(ReadableFiles(ui.archive))
        /\ \A e \in ReadableFiles(ui.archive) :
              Get(ui.written, NormalPrefix(ui.destinationPath) \o e.name) = e.content

\* C24: exporting a table and unpacking the archive to the root into an
\* empty table gives the entries of the table that hold text and whose path
\* does not end in '/.placeholder', each at its path with its content.
ExportThenUnpack ==
    (last.op = "handleConfirmUnpack" /\ last.snap) =>
        /\ DOMAIN ui.written =
              { p \in ExportPaths : IsString(ui.table[p]) /\ ~EndsInPlaceholder(p) }
        /\ \A p \in DOMAIN ui.written : ui.written[p] = ui.table[p]

\* a table with a file, a marker file and an unfetched entry went round
W_ExportThenUnpack ==
    /\ last.op = "handleConfirmUnpack" /\ last.snap
    /\ ui.table[<<"", "a.txt">>] = "hi"
    /\ ui.table[<<"", "x", ".placeholder">>] = ""
    /\ ui.table[<<"", "x", "b.txt">>] = Null
    /\ ui.written = [p \in {<<"", "a.txt">>} |-> "hi"]

-----------------------------------------------------------------------------
(* Persistence: saveState, the debounced auto-save subscription and a
   reload of the page.  db holds what loadState would resolve to.  A pending
   timer of the debounce and a saveState call that is writing its items are
   entries of inflight; a saveState call holds the state it read.           *)

MaxSaves == 1       \* saveState calls writing at the same time

\* the tables the panel writes: README.md edited; a loaded repository without
\* the marker file
SaveMaps ==
    { With(InitialMap, ReadmePath, "x"),
      [p \in Paths |-> IF p = ReadmePath THEN Null ELSE Absent] }

IsTimer(call) == call.kind = "saveTimer"
IsSave(call) == call.kind = "saveState"
TimerPending == \E i \in DOMAIN inflight : IsTimer(inflight[i])
SavesInProgress == Cardinality({ i \in DOMAIN inflight : IsSave(inflight[i]) })

debouncedSave_keepsTimers(f) == Append(f, Pending("saveTimer", NoFile, NoClosure))

\* debounce: clearTimeout(timeout); timeout = setTimeout(...)
debouncedSave(f) ==
    Append(SelectSeq(f, LAMBDA call : ~IsTimer(call)), Pending("saveTimer", NoFile, NoClosure))

\* the listener of the auto-save subscription, run when set() has replaced
\* state s by t and one of the selected values is another one
AutoSave(s, t, f) ==
    IF <<t.fileSystem, t.chatHistory, t.activeFile>> # <<s.fileSystem, s.chatHistory, s.activeFile>>
       /\ ~t.isDBLoading
    THEN debouncedSave(f)
    ELSE f

saveState_ignoresLoading(s, f) ==
    Append(f, [Pending("saveState", NoFile, [NoClosure EXCEPT !.fileSystem = s.fileSystem])
                  EXCEPT !.pc = "chatHistory"])

\* saveState up to its first await: the state is read once
saveState(s, f) ==
    IF s.isDBLoading THEN f
    ELSE Append(f, [Pending("saveState", NoFile, [NoClosure EXCEPT !.fileSystem = s.fileSystem])
                       EXCEPT !.pc = "chatHistory"])

\* the empty object store; complete is a history variable: the last
\* saveState call that wrote has written all its items
NothingStored == [exists |-> FALSE, hasFs |-> FALSE, fs |-> EmptyMap, complete |-> FALSE]

InitSave ==
    /\ store = InitialStore
    /\ inflight = <<>>
    /\ ui = InitialUI
    /\ last = NoOp
    /\ round = NoRound
    /\ db = NothingStored

\* the mount effect: loadStateFromDB() resolves with what the storage holds
LoadDB ==
    /\ store.isDBLoading
    /\ LET t == loadStateFromDB(store, db, Refs)
       IN /\ store' = t
          /\ inflight' = AutoSave(store, t, inflight)
    /\ last' = Op("loadStateFromDB")
    /\ UNCHANGED <<ui, round, db>>

\* a write of the table by the panel
StoreWrite(M, snapshot) ==
    /\ ~store.isDBLoading
    /\ snapshot => CanSnapshot
    /\ LET t == setFileSystem(store, New(M, Refs), snapshot)
       IN /\ store' = t
          /\ inflight' = AutoSave(store, t, inflight)
    /\ last' = Op("setFileSystem")
    /\ UNCHANGED <<ui, round, db>>

StoreUndo ==
    /\ ~store.isDBLoading /\ canUndo(store)
    /\ LET t == undo(store)
       IN /\ store' = t
          /\ inflight' = AutoSave(store, t, inflight)
    /\ last' = Op("undo")
    /\ UNCHANGED <<ui, round, db>>

\* the timer of the debounce fires: useStore.getState().saveState()
TimerFires(i) ==
    /\ i \in DOMAIN inflight /\ IsTimer(inflight[i])
    /\ SavesInProgress < MaxSaves
    /\ inflight' = saveState(store, Remove(inflight, i))
    /\ last' = [Op("debouncedSave") EXCEPT !.arg = store.fileSystem.m]
    /\ UNCHANGED <<store, ui, round, db>>

\* saveState() called directly (the orb menu's Save)
SaveNow ==
    /\ SavesInProgress < MaxSaves
    /\ inflight' = saveState(store, inflight)
    /\ last' = Op("saveState")
    /\ UNCHANGED <<store, ui, round, db>>

\* the loop of saveState: chatHistory, fileSystem, then the other keys and
\* set({ lastSavedTimestamp })
SaveItem(i) ==
    /\ i \in DOMAIN inflight /\ IsSave(inflight[i])
    /\ IF inflight[i].pc = "chatHistory"
       THEN /\ db' = [db EXCEPT !.exists = TRUE, !.complete = FALSE]
            /\ inflight' = [inflight EXCEPT ![i].pc = "fileSystem"]
            /\ last' = Op("saveItem")
       ELSE IF inflight[i].pc = "fileSystem"
       THEN /\ db' = [db EXCEPT !.exists = TRUE, !.hasFs = TRUE,
                                !.fs = inflight[i].c.fileSystem.m]
            /\ inflight' = [inflight EXCEPT ![i].pc = "rest"]
            /\ last' = Op("saveItem")
       ELSE /\ db' = [db EXCEPT !.complete = TRUE]
            /\ inflight' = Remove(inflight, i)
            /\ last' = Op("saveDone")
    /\ UNCHANGED <<store, ui, round>>

\* saveItem rejects: set({ error })
SaveFail(i) ==
    /\ i \in DOMAIN inflight /\ IsSave(inflight[i])
    /\ store' = setError(store, ErrorMessage)
    /\ inflight' = Remove(inflight, i)
    /\ last' = Op("saveFail")
    /\ UNCHANGED <<ui, round, db>>

\* the page is reloaded: the module state, its timers and its calls are gone
Reload ==
    /\ last.op # "reload"
    /\ store' = InitialStore
    /\ inflight' = <<>>
    /\ last' = Op("reload")
    /\ UNCHANGED <<ui, round, db>>

NextSave ==
    \/ LoadDB
    \/ \E M \in SaveMaps, snapshot \in BOOLEAN : StoreWrite(M, snapshot)
    \/ StoreUndo
    \/ \E i \in 1..(MaxSaves + 1) : TimerFires(i)
    \/ SaveNow
    \/ \E i \in 1..(MaxSaves + 1) : SaveItem(i)
    \/ \E i \in 1..(MaxSaves + 1) : SaveFail(i)
    \/ Reload

SpecSave == InitSave /\ [][NextSave]_vars

\* C25 as stated: loadStateFromDB restores a live table equal to the saved
\* table for every path, and installs the initial table on a first run.
ReloadRestoresSaved ==
    last.op = "loadStateFromDB" =>
        /\ db.complete => store.fileSystem.m = db.fs
        /\ ~db.exists => store.fileSystem.m = InitialMap

\* C25, amended: the restored table equals the saved table for every path
\* but /README.md, which holds the built-in text whatever was saved.
ReloadRestoresSavedButReadme ==
    last.op = "loadStateFromDB" =>
        /\ db.complete =>
              /\ \A p \in Paths \ {ReadmePath} : store.fileSystem.m[p] = db.fs[p]
              /\ store.fileSystem.m[ReadmePath] = readmeContent
        /\ ~db.exists => store.fileSystem.m = InitialMap

\* a table without the marker file was saved and has been restored
W_ReloadRestoresSavedButReadme ==
    /\ last.op = "loadStateFromDB"
    /\ db.complete
    /\ db.fs[MarkerPath] = Absent
    /\ store.fileSystem.m[MarkerPath] = Absent

\* C29: while isDBLoading is true no saveState call starts to write and the
\* storage is not written, whether the auto-save or a direct call asks.
NoWriteWhileLoading ==
    [][store.isDBLoading =>
          /\ db' = db
          /\ \A i \in DOMAIN inflight' : ~IsSave(inflight'[i])]_vars

\* saveState was called during the load of a page with a saved table
W_NoWriteWhileLoading ==
    /\ last.op = "saveState"
    /\ store.isDBLoading
    /\ db.hasFs
    /\ inflight = <<>>

\* a timer that is due fires, and a saveState call goes on writing
SpecDebounce ==
    /\ SpecSave
    /\ SF_vars(\E i \in 1..(MaxSaves + 1) : TimerFires(i))
    /\ WF_vars(\E i \in 1..(MaxSaves + 1) : SaveItem(i))

Timers(f) == { i \in DOMAIN f : IsTimer(f[i]) }
Saves(f) == { i \in DOMAIN f : IsSave(f[i]) }
\* the step starts a saveState call that will write the table now live
SavesLiveTable ==
    /\ Cardinality(Saves(inflight')) = Cardinality(Saves(inflight)) + 1
    /\ inflight'[Len(inflight')].c.fileSystem = store.fileSystem
    /\ store' = store

\* C26: a change starts no save itself and leaves exactly one timer, which
\* replaces the timer of the change before it; a save is started by the
\* timer only, for the table then live; and a pending timer leads to such
\* a save, unless the page is reloaded first.
AutoSaveDebounced ==
    /\ [][/\ Cardinality(Timers(inflight')) <= 1
          /\ last'.op \in {"setFileSystem", "undo", "loadStateFromDB"} =>
                /\ Cardinality(Timers(inflight')) = 1
                /\ Cardinality(Saves(inflight')) = Cardinality(Saves(inflight))
          /\ last'.op = "debouncedSave" =>
                /\ Timers(inflight') = {}
                /\ SavesLiveTable]_vars
    /\ (TimerPending ~> (last.op \in {"debouncedSave", "reload"}))

\* two changes in a row, then the one save of the burst, for the later table
W_AutoSaveDebounced ==
    /\ last.op = "debouncedSave"
    /\ store.fileSystem.m = With(InitialMap, ReadmePath, "x")
    /\ Len(store.fileSystemHistory) = 2
    /\ Saves(inflight) # {}
    /\ \A i \in Saves(inflight) : inflight[i].c.fileSystem = store.fileSystem

----------------------------------------------------------------------------
(* System Operator panel: the Install, Build and Start buttons of a container *)

HandoverPath == <<"", "containers", "c1", "handover.json">>
LockPath == <<"", "containers", "c1", "package-lock.json">>
DistPath == <<"", "containers", "c1", "dist", "index.js">>
ContainerPaths == {HandoverPath, LockPath, DistPath}

\* a HandoverHistoryItem: its action and its details; by and at are not modelled
HistoryItem(action, command, status) ==
    [action |-> action, command |-> command, status |-> status]
\* a Handover, as the object that JSON.parse gives for the text that
\* JSON.stringify wrote: its status and its history
Handover(status, history) == [status |-> status, history |-> history]
NewHandover == Handover("initialized", <<HistoryItem("create", "", "")>>)

\* the tables the panel is opened on: one container, with or without a lock file
ContainerTables ==
    { [p \in ContainerPaths |->
          IF p = HandoverPath THEN NewHandover
          ELSE IF p = LockPath THEN lock ELSE Absent] : lock \in {Absent, "old"} }

ContainerCommands == {"npm install", "npm run build", "npm start"}
\* what the simulated command reports: a clean run, or text on stderr
TerminalOutcomes == {"ok", "stderr"}
\* result.fileSystemChanges of a simulated command
ContainerChanges ==
    { <<>>,
      <<Change("create", LockPath, "lock")>>,
      <<Change("create", DistPath, "built")>>,
      <<Change("update", LockPath, "lock"), Change("create", DistPath, "built")>>,
      <<Change("delete", LockPath, Absent)>> }

\* the status handleRunCommand sets before the command is run
statusWhileRunning(command) ==
    IF command = "npm install" THEN "installing"
    ELSE IF command = "npm run build" THEN "building"
    ELSE "running"

\* handleRunCommand up to its await: { ...fileSystem, [handoverPath]: handover }
tempFs(M, command) ==
    With(M, HandoverPath, Handover(statusWhileRunning(command), M[HandoverPath].history))

\* handleRunCommand after its await, on the table M of the render it was
\* started in: the entry pushed has status 'success', the status becomes 'running'
finalFs(M, command) ==
    With(M, HandoverPath,
         Handover("running",
                  Append(M[HandoverPath].history, HistoryItem("command", command, "success"))))

\* the values of the render in which the button was clicked: the fileSystem
\* prop of the panel and the handleTerminalSubmit passed as onRunCommand
RunClosure == [NoClosure EXCEPT !.fileSystem = store.fileSystem]

RoomFor(n) == store.currentHistoryIndex + n < MaxHist

InitContainer ==
    /\ \E M \in ContainerTables :
          store = [InitialStore EXCEPT !.isDBLoading = FALSE,
                                       !.fileSystem = [id |-> 2, m |-> M],
                                       !.fileSystemHistory = <<[id |-> 2, m |-> M]>>,
                                       !.currentHistoryIndex = 0]
    /\ inflight = <<>>
    /\ ui = [isLoading |-> FALSE, activeCommand |-> "", isTerminalLoading |-> FALSE]
    /\ last = NoOp
    /\ round = NoRound
    /\ db = NoSavedState

\* a button of the container card, disabled while isLoading: handleRunCommand
\* up to its await, and handleTerminalSubmit up to its own
RunCommand(command) ==
    /\ Ready /\ ~ui.isLoading /\ CanStart
    /\ Becomes(setFileSystem(store, New1(tempFs(store.fileSystem.m, command)), FALSE),
               Append(inflight, [Pending("container", HandoverPath, RunClosure)
                                    EXCEPT !.pc = command]))
    /\ ui' = [isLoading |-> TRUE, activeCommand |-> command, isTerminalLoading |-> TRUE]
    /\ last' = Op("handleRunCommand")
    /\ UNCHANGED <<round, db>>

\* the store after the awaited handleTerminalSubmit has written (store state t)
\* and handleRunCommand has written its final table
runCompleted(t, c, command) ==
    setFileSystem(t, New2(finalFs(c.fileSystem.m, command)), TRUE)

\* what the run leaves behind: the table the command's changes ask for, the
\* changed paths, the history the handover had, the command and its outcome
RunReturned(r, changes, outcome) ==
    [Returned("runCompleted", r, {changes[k].path : k \in DOMAIN changes})
        EXCEPT !.arg = ApplyChanges(r.c.fileSystem.m, changes),
               !.calls = r.c.fileSystem.m[HandoverPath].history,
               !.pc = outcome,
               !.snap = TRUE]

\* runCommandInTerminal resolves: handleTerminalSubmit applies the changes, then
\* handleRunCommand continues
RunResponse(i, changes, outcome) ==
    /\ i \in DOMAIN inflight /\ inflight[i].kind = "container"
    /\ RoomFor(IF changes # <<>> THEN 2 ELSE 1)
    /\ Becomes(runCompleted(terminalCompleted(store, inflight[i].c, changes),
                            inflight[i].c, inflight[i].pc),
               Remove(inflight, i))
    /\ ui' = [isLoading |-> FALSE, activeCommand |-> "", isTerminalLoading |-> FALSE]
    /\ last' = RunReturned(inflight[i], changes, outcome)
    /\ UNCHANGED <<round, db>>

\* runCommandInTerminal rejects: handleTerminalSubmit catches the error, then
\* handleRunCommand continues
RunFail(i) ==
    /\ i \in DOMAIN inflight /\ inflight[i].kind = "container"
    /\ RoomFor(1)
    /\ Becomes(runCompleted(store, inflight[i].c, inflight[i].pc), Remove(inflight, i))
    /\ ui' = [isLoading |-> FALSE, activeCommand |-> "", isTerminalLoading |-> FALSE]
    /\ last' = RunReturned(inflight[i], <<>>, "rejected")
    /\ UNCHANGED <<round, db>>

NextContainer ==
    \/ \E command \in ContainerCommands : RunCommand(command)
    \/ \E i \in 1..MaxInflight, changes \in ContainerChanges, outcome \in TerminalOutcomes :
          RunResponse(i, changes, outcome)
    \/ \E i \in 1..MaxInflight : RunFail(i)

SpecContainer == InitContainer /\ [][NextContainer]_vars

\* the status a history entry has when it reflects the outcome
StatusFor(outcome) == IF outcome = "ok" THEN "success" ELSE "failure"

\* C27: after an Install, Build or Start run on a container has completed, the
\* live table holds the file-system changes the simulated command returned, and
\* the container's handover.json is the one the run started from extended by
\* exactly one history entry, whose status reflects the command's outcome.
RunKeepsChangesAndLogsOutcome ==
    last.op = "runCompleted" =>
        LET live == store.fileSystem.m
            h == live[HandoverPath].history
        IN /\ \A p \in last.paths : live[p] = last.arg[p]
           /\ Len(h) = Len(last.calls) + 1
           /\ SubSeq(h, 1, Len(last.calls)) = last.calls
           /\ h[Len(h)].status = StatusFor(last.pc)

----------------------------------------------------------------------------
(* AgentsPanel.tsx: the panel that keeps the table and its history in
   component state.  Here ui holds fileSystem, fileSystemHistory and
   currentHistoryIndex; a table is the map itself. *)

\* array.slice(0, n)
SliceTo(h, n) == SubSeq(h, 1, IF n < Len(h) THEN n ELSE Len(h))

\* saveSnapshot(fs) of a render whose currentHistoryIndex was c, on the panel
\* state u: the history updater slices at the index of the render, the index
\* updater adds one to the index it finds
saveSnapshot(u, c, fs) ==
    [u EXCEPT !.fileSystemHistory = Append(SliceTo(u.fileSystemHistory, c + 1), fs),
              !.currentHistoryIndex = u.currentHistoryIndex + 1]

\* the values of the render in which a container button was clicked
PanelClosure ==
    [fileSystem |-> ui.fileSystem, currentHistoryIndex |-> ui.currentHistoryIndex]

IndexRoom(n) == ui.currentHistoryIndex + n < MaxHist

\* the state after loadStateFromDB has run: one snapshot, index 0
InitLocalHistory ==
    /\ \E M \in ContainerTables :
          ui = [fileSystem |-> M, fileSystemHistory |-> <<M>>, currentHistoryIndex |-> 0,
                isLoading |-> FALSE]
    /\ store = InitialStore
    /\ inflight = <<>>
    /\ last = NoOp
    /\ round = NoRound
    /\ db = NoSavedState

\* handleNewFile: setFileSystem(prevFs => { ...; saveSnapshot(newFs); return newFs })
PanelNewFile(path) ==
    /\ IndexRoom(1)
    /\ ui.fileSystem[path] = Absent
    /\ LET newFs == With(ui.fileSystem, path, "")
       IN /\ ui' = saveSnapshot([ui EXCEPT !.fileSystem = newFs], ui.currentHistoryIndex, newFs)
          /\ last' = [Op("saveSnapshot") EXCEPT !.arg = newFs, !.snap = TRUE]
    /\ UNCHANGED <<store, inflight, round, db>>

\* a button of the container card: handleRunCommand up to its await;
\* onUpdateFileSystem(tempFs, false) takes no snapshot
PanelRunCommand(command) ==
    /\ ~ui.isLoading /\ CanStart
    /\ ui' = [ui EXCEPT !.fileSystem = tempFs(ui.fileSystem, command), !.isLoading = TRUE]
    /\ inflight' = Append(inflight, [Pending("container", HandoverPath, PanelClosure)
                                        EXCEPT !.pc = command])
    /\ last' = Op("handleRunCommand")
    /\ UNCHANGED <<store, round, db>>

\* the updater of handleTerminalSubmit on panel state u: the changes are
\* applied to the table it finds, and saveSnapshot of the render c is called
panelTerminalCompleted(u, c, changes) ==
    IF changes # <<>>
    THEN LET newFs == ApplyChanges(u.fileSystem, changes)
         IN saveSnapshot([u EXCEPT !.fileSystem = newFs], c.currentHistoryIndex, newFs)
    ELSE u

\* onUpdateFileSystem(finalFs, true) of the render c
panelRunCompleted(u, c, command) ==
    LET fs == finalFs(c.fileSystem, command)
    IN saveSnapshot([u EXCEPT !.fileSystem = fs, !.isLoading = FALSE], c.currentHistoryIndex, fs)

\* runCommandInTerminal resolves: the terminal write, then the final handover write
PanelRunResponse(i, changes) ==
    /\ i \in DOMAIN inflight /\ inflight[i].kind = "container"
    /\ IndexRoom(IF changes # <<>> THEN 2 ELSE 1)
    /\ ui' = panelRunCompleted(panelTerminalCompleted(ui, inflight[i].c, changes),
                               inflight[i].c, inflight[i].pc)
    /\ inflight' = Remove(inflight, i)
    /\ last' = [Op("saveSnapshot") EXCEPT !.arg = finalFs(inflight[i].c.fileSystem, inflight[i].pc),
                                          !.snap = TRUE,
                                          !.pc = "resolved",
                                          !.calls = changes]
    /\ UNCHANGED <<store, round, db>>

\* runCommandInTerminal rejects: the final handover write alone
PanelRunFail(i) ==
    /\ i \in DOMAIN inflight /\ inflight[i].kind = "container"
    /\ IndexRoom(1)
    /\ ui' = panelRunCompleted(ui, inflight[i].c, inflight[i].pc)
    /\ inflight' = Remove(inflight, i)
    /\ last' = [Op("saveSnapshot") EXCEPT !.arg = finalFs(inflight[i].c.fileSystem, inflight[i].pc),
                                          !.snap = TRUE,
                                          !.pc = "rejected"]
    /\ UNCHANGED <<store, round, db>>

NextLocalHistory ==
    \/ \E path \in {LockPath, DistPath} : PanelNewFile(path)
    \/ \E command \in ContainerCommands : PanelRunCommand(command)
    \/ \E i \in 1..MaxInflight, changes \in ContainerChanges : PanelRunResponse(i, changes)
    \/ \E i \in 1..MaxInflight : PanelRunFail(i)

SpecLocalHistory == InitLocalHistory /\ [][NextLocalHistory]_vars

\* C30: in the component-local history, after any sequence of saveSnapshot
\* calls, two calls made by handlers of the same render among them,
\* currentHistoryIndex is less than the length of fileSystemHistory and is the
\* index of the snapshot appended last.
IndexIsLastSnapshot ==
    /\ ui.currentHistoryIndex < Len(ui.fileSystemHistory)
    /\ last.op = "saveSnapshot" =>
          ui.fileSystemHistory[ui.currentHistoryIndex + 1] = last.arg

====
